---- MODULE Spec2Model ----
(***************************************************************************)
(* A model of the dns-message wire codec (src/dns-message/src): the header *)
(* codec, the name codec with compression-pointer resolution, the record   *)
(* codecs and the message assembler.  Byte buffers are sequences of        *)
(* 0..255; a Rust String is the sequence of its UTF-8 bytes.               *)
(***************************************************************************)
EXTENDS Integers, Sequences, FiniteSets, TLC

VARIABLES
    hpc,      \* header harness: position ("enc", "wire", "encoded", "decoded", "idle")
    hdr,      \* header harness: the Header value handed to Header::to_bytes
    hcounts,  \* header harness: the four section lengths of the enclosing Message
    hwire,    \* header harness: the 12 bytes handed to read_header
    henc,     \* header harness: result of Header::to_bytes
    hdec      \* header harness: result of read_header

VARIABLES
    npc,      \* name harness: position ("str", "encoded", "idle")
    nstr,     \* name harness: the string handed to encode_str
    nenc,     \* name harness: result of encode_str
    nback     \* name harness: read_names and flatten_to_string of the bytes written

VARIABLES
    mpc,      \* message harness: position ("start", "decoded", "compared", "encoded", "redecoded", "idle")
    mbuf,     \* message harness: the datagram handed to Message::from_bytes
    mxbuf,    \* message harness: the same message written with every name expanded
    mtags,    \* message harness: how buf was put together
    masm,     \* message harness: outcome of as_message(buf), before read_message wraps it
    mdec,     \* message harness: outcome of Message::from_bytes(buf)
    mxdec,    \* message harness: outcome of Message::from_bytes(xbuf)
    menc,     \* message harness: outcome of to_bytes on the decoded Message
    mdec2     \* message harness: outcome of Message::from_bytes on the bytes written

VARIABLES
    rpc,      \* resolve harness: position ("run", "done", "idle")
    rbuf,     \* resolve harness: the input a name is resolved against
    rstack,   \* resolve harness: the active resolve_names calls, outermost first
    rseen,    \* resolve harness: seen_ptrs
    rcalls,   \* resolve harness: nested resolve_names calls made so far
    rout      \* resolve harness: how the outermost call ended

VARIABLES
    epc,      \* encode harness: position ("msg", "done", "idle")
    emsg,     \* encode harness: the Message handed to to_bytes
    eout,     \* encode harness: the caller's buffer before the call
    eres      \* encode harness: outcome of to_bytes and the caller's buffer after it

VARIABLES
    fpc,      \* format harness: position ("start", "fmt", "arg", "unwind", "overflow", "done", "idle")
    ferr,     \* format harness: the MessageError being formatted
    fwriter,  \* format harness: the fmt::Write behind the Formatter
    fdepth,   \* format harness: active calls of <MessageError as Display>::fmt
    fwritten, \* format harness: how many times the prefix was written
    fres      \* format harness: what the outermost call returned

VARIABLES
    spc,      \* relay: the server process ("running", "aborted", "idle")
    slogging, \* relay: whether a tracing subscriber is installed, as main.rs does
    stasks,   \* relay: the spawned tasks in the order of their datagrams
    srecv,    \* relay: the datagrams the stream yielded, in order
    srxerrs,  \* relay: receive errors the loop logged and skipped
    sguard,   \* relay: the task holding the sink's MutexGuard, 0 for none
    sframe,   \* relay: the frame start_send stored in the sink, not yet flushed
    ssent     \* relay: the datagrams the sink wrote to the socket, in order

VARIABLES
    bpc,      \* builder harness: position ("building", "built", "encoded", "decoded", "idle")
    bcalls,   \* builder harness: the calls made on the MessageBuilder since new(), in order
    bres,     \* builder harness: what to_bytes returned for the built Message
    bdec      \* builder harness: what from_bytes returned for the bytes written

hdrVars == <<hpc, hdr, hcounts, hwire, henc, hdec>>

msgVars == <<mpc, mbuf, mxbuf, mtags, masm, mdec, mxdec, menc, mdec2>>

nameVars == <<npc, nstr, nenc, nback>>

resVars == <<rpc, rbuf, rstack, rseen, rcalls, rout>>

encVars == <<epc, emsg, eout, eres>>

fmtVars == <<fpc, ferr, fwriter, fdepth, fwritten, fres>>

relayVars == <<spc, slogging, stasks, srecv, srxerrs, sguard, sframe, ssent>>

bldVars == <<bpc, bcalls, bres, bdec>>

vars == <<hdrVars, nameVars, msgVars, resVars, encVars, fmtVars, relayVars, bldVars>>

(***************************************************************************)
(* Primitive values                                                        *)
(***************************************************************************)

\* lib.rs:23, the "." that encode_str splits on; parser.rs:424, the '.'
\* that flatten_to_string joins with.
Dot == 46

\* lib.rs:25, the longest label encode_str accepts.
MaxLabel == 63

\* header.rs:135, the largest opcode OpCode::as_u8 accepts (0xf).
MaxOpCode == 15

\* let x = v; followed by the rest of a function body F: v is evaluated once
\* and F sees its value.
Bind(v, F(_)) == CHOOSE y \in {F(x) : x \in {v}} : TRUE

Bit(b, i) == (b \div (2 ^ i)) % 2

\* The u8 operator | .
BitOr(a, b) ==
    LET m(i) == IF Bit(a, i) = 1 \/ Bit(b, i) = 1 THEN 2 ^ i ELSE 0
    IN  m(0) + m(1) + m(2) + m(3) + m(4) + m(5) + m(6) + m(7)

\* u16::to_be_bytes
U16ToBe(v) == <<(v \div 256) % 256, v % 256>>

\* u16::from_be_bytes
U16FromBe(b) == b[1] * 256 + b[2]

\* u32::to_be_bytes
U32ToBe(v) == <<(v \div 16777216) % 256, (v \div 65536) % 256, (v \div 256) % 256, v % 256>>

\* u32::from_be_bytes
U32FromBe(b) == ((b[1] * 256 + b[2]) * 256 + b[3]) * 256 + b[4]

Drop(s, n) == SubSeq(s, n + 1, Len(s))

Take(s, n) == SubSeq(s, 1, n)

\* nom results: IResult<&[u8], T>.
NomOk(rest, val) == [st |-> "Ok", rest |-> rest, val |-> val]

NomErr == [st |-> "NomErr", rest |-> <<>>, val |-> <<>>]

\* nom::bits::complete::take over a bit cursor: the n bits of the byte
\* sequence starting at bit position pos (most significant bit first).
RECURSIVE TakeBits(_, _, _)
TakeBits(bytes, pos, n) ==
    IF n = 0 THEN 0
    ELSE LET last == pos + n - 1
             bit  == Bit(bytes[(last \div 8) + 1], 7 - (last % 8))
         IN  2 * TakeBits(bytes, pos, n - 1) + bit

\* parser.rs read_u16
ReadU16(input) ==
    IF Len(input) < 2 THEN NomErr
    ELSE NomOk(Drop(input, 2), U16FromBe(Take(input, 2)))

\* parser.rs read_u32
ReadU32(input) ==
    IF Len(input) < 4 THEN NomErr
    ELSE NomOk(Drop(input, 4), U32FromBe(Take(input, 4)))

(***************************************************************************)
(* Header codec                                                            *)
(***************************************************************************)

OpQuery == [k |-> "Query", v |-> 0]
OpIQuery == [k |-> "IQuery", v |-> 0]
OpStatus == [k |-> "Status", v |-> 0]
OpUnknown(n) == [k |-> "Unknown", v |-> n]

RcNoError == [k |-> "NoError", v |-> 0]
RcFormatError == [k |-> "FormatError", v |-> 0]
RcServerFailure == [k |-> "ServerFailure", v |-> 0]
RcNameError == [k |-> "NameError", v |-> 0]
RcNotImplemented == [k |-> "NotImplemented", v |-> 0]
RcRefused == [k |-> "Refused", v |-> 0]
RcUnknown(n) == [k |-> "Unknown", v |-> n]

\* OpCode::as_u8 with the range test off by one (>= 0xf).
OpCodeAsU8_OffByOne(op) ==
    CASE op.k = "Query"  -> [ok |-> TRUE, v |-> 0]
      [] op.k = "IQuery" -> [ok |-> TRUE, v |-> 1]
      [] op.k = "Status" -> [ok |-> TRUE, v |-> 2]
      [] OTHER -> IF op.v >= MaxOpCode THEN [ok |-> FALSE, v |-> 0]
                  ELSE [ok |-> TRUE, v |-> op.v]

\* OpCode::as_u8: Result<u8>
OpCodeAsU8(op) ==
    CASE op.k = "Query"  -> [ok |-> TRUE, v |-> 0]
      [] op.k = "IQuery" -> [ok |-> TRUE, v |-> 1]
      [] op.k = "Status" -> [ok |-> TRUE, v |-> 2]
      [] OTHER -> IF op.v > MaxOpCode THEN [ok |-> FALSE, v |-> 0]
                  ELSE [ok |-> TRUE, v |-> op.v]

\* RCode::as_u8: u8, no range check
RCodeAsU8(rc) ==
    CASE rc.k = "NoError"        -> 0
      [] rc.k = "FormatError"    -> 1
      [] rc.k = "ServerFailure"  -> 2
      [] rc.k = "NameError"      -> 3
      [] rc.k = "NotImplemented" -> 4
      [] rc.k = "Refused"        -> 5
      [] OTHER -> rc.v

\* Results of the encoders: Result<usize> and the caller's buffer after the call.
EncOk(buf, n) == [st |-> "Ok", buf |-> buf, n |-> n, err |-> "none"]

EncErr(buf, e) == [st |-> "Err", buf |-> buf, n |-> 0, err |-> e]

\* header.rs:63-77, the first flag byte.
FlagByte1(h, op) ==
    Bind(IF h.qr THEN BitOr(0, 128) ELSE 0, LAMBDA v1 :
    Bind(BitOr(v1, (op * 8) % 256), LAMBDA v2 :
    Bind(IF h.aa THEN BitOr(v2, 4) ELSE v2, LAMBDA v3 :
    Bind(IF h.tc THEN BitOr(v3, 2) ELSE v3, LAMBDA v4 :
    IF h.rd THEN BitOr(v4, 1) ELSE v4))))

\* header.rs:78-89, the second flag byte: bit 7 is set from self.rd.
FlagByte2(h) ==
    Bind(IF h.rd THEN BitOr(0, 128) ELSE 0, LAMBDA v1 :
    Bind(IF h.ad THEN BitOr(v1, 32) ELSE v1, LAMBDA v2 :
    Bind(IF h.cd THEN BitOr(v2, 16) ELSE v2, LAMBDA v3 :
    BitOr(v3, RCodeAsU8(h.rcode)))))

\* Header::to_bytes(&self, message, buf); counts are the four section
\* lengths of message.
HeaderToBytes(h, counts, buf) ==
    Bind(buf \o U16ToBe(h.id), LAMBDA b1 :
    Bind(OpCodeAsU8(h.opcode), LAMBDA op :
    IF ~op.ok THEN EncErr(b1, "ReservedOpCode")
    ELSE EncOk(b1 \o <<FlagByte1(h, op.v), FlagByte2(h)>>
                  \o U16ToBe(counts[1] % 65536) \o U16ToBe(counts[2] % 65536)
                  \o U16ToBe(counts[3] % 65536) \o U16ToBe(counts[4] % 65536),
               12)))

\* parser.rs:146-151
OpCodeFromBits(s) ==
    CASE s = 0 -> OpQuery
      [] s = 1 -> OpIQuery
      [] s = 2 -> OpStatus
      [] OTHER -> OpUnknown(s)

\* parser.rs:159-167
RCodeFromBits(s) ==
    CASE s = 0 -> RcNoError
      [] s = 1 -> RcFormatError
      [] s = 2 -> RcServerFailure
      [] s = 3 -> RcNameError
      [] s = 4 -> RcNotImplemented
      [] s = 5 -> RcRefused
      [] OTHER -> RcUnknown(s)

\* The flag word read with rd and ra taken in the opposite order.
ReadFlags_RaBeforeRd(fl) ==
    IF TakeBits(fl, 9, 1) # 0 THEN NomErr
    ELSE NomOk(<<>>,
               [qr |-> TakeBits(fl, 0, 1) = 1,
                opcode |-> OpCodeFromBits(TakeBits(fl, 1, 4)),
                aa |-> TakeBits(fl, 5, 1) = 1,
                tc |-> TakeBits(fl, 6, 1) = 1,
                rd |-> TakeBits(fl, 8, 1) = 1,
                ra |-> TakeBits(fl, 7, 1) = 1,
                ad |-> TakeBits(fl, 10, 1) = 1,
                cd |-> TakeBits(fl, 11, 1) = 1,
                rcode |-> RCodeFromBits(TakeBits(fl, 12, 4))])

\* parser.rs:142-169, the 16-bit flag word read through the bit cursor; the
\* tag_bits(0, 1) on the reserved bit fails the parse when the bit is set.
ReadFlags(fl) ==
    IF TakeBits(fl, 9, 1) # 0 THEN NomErr
    ELSE NomOk(<<>>,
               [qr |-> TakeBits(fl, 0, 1) = 1,
                opcode |-> OpCodeFromBits(TakeBits(fl, 1, 4)),
                aa |-> TakeBits(fl, 5, 1) = 1,
                tc |-> TakeBits(fl, 6, 1) = 1,
                rd |-> TakeBits(fl, 7, 1) = 1,
                ra |-> TakeBits(fl, 8, 1) = 1,
                ad |-> TakeBits(fl, 10, 1) = 1,
                cd |-> TakeBits(fl, 11, 1) = 1,
                rcode |-> RCodeFromBits(TakeBits(fl, 12, 4))])

\* read_header: RawHeader = the Header and the four counts.
ReadHeader(input) ==
    IF Len(input) < 12 THEN NomErr
    ELSE Bind(Take(input, 12), LAMBDA hb :
         Bind(ReadFlags(SubSeq(hb, 3, 4)), LAMBDA f :
         IF f.st # "Ok" THEN NomErr
         ELSE NomOk(Drop(input, 12),
                    [header |-> [id |-> U16FromBe(SubSeq(hb, 1, 2)),
                                 qr |-> f.val.qr, opcode |-> f.val.opcode,
                                 aa |-> f.val.aa, tc |-> f.val.tc,
                                 rd |-> f.val.rd, ra |-> f.val.ra,
                                 ad |-> f.val.ad, cd |-> f.val.cd,
                                 rcode |-> f.val.rcode],
                     qd_count |-> U16FromBe(SubSeq(hb, 5, 6)),
                     an_count |-> U16FromBe(SubSeq(hb, 7, 8)),
                     ns_count |-> U16FromBe(SubSeq(hb, 9, 10)),
                     ar_count |-> U16FromBe(SubSeq(hb, 11, 12))])))

(***************************************************************************)
(* Name codec: encode                                                      *)
(***************************************************************************)

\* str::split("."): the segments between dots; "" splits to one empty
\* segment.  SplitFrom cuts one segment off at the first dot at or after
\* position start.
RECURSIVE SplitFrom(_, _, _)
SplitFrom(s, start, acc) ==
    Bind({i \in start..Len(s) : s[i] = Dot}, LAMBDA dots :
    IF dots = {} THEN Append(acc, SubSeq(s, start, Len(s)))
    ELSE Bind(CHOOSE d \in dots : \A e \in dots : d <= e, LAMBDA d :
         SplitFrom(s, d + 1, Append(acc, SubSeq(s, start, d - 1)))))

Split(s) == SplitFrom(s, 1, <<>>)

\* The loop of encode_str with the limit test off by one (>= 63).
RECURSIVE EncodeParts_OffByOne(_, _, _, _)
EncodeParts_OffByOne(parts, i, buf, byte_count) ==
    IF i > Len(parts) THEN EncOk(Append(buf, 0), byte_count + 1)
    ELSE IF Len(parts[i]) >= MaxLabel THEN EncErr(buf, "NameLengthExceeded")
    ELSE EncodeParts_OffByOne(parts, i + 1, (buf \o <<Len(parts[i]) % 256>>) \o parts[i],
                              byte_count + 1 + Len(parts[i]))

\* The loop of encode_str with the limit one byte higher (> 64).
RECURSIVE EncodeParts_LimitPlusOne(_, _, _, _)
EncodeParts_LimitPlusOne(parts, i, buf, byte_count) ==
    IF i > Len(parts) THEN EncOk(Append(buf, 0), byte_count + 1)
    ELSE IF Len(parts[i]) > MaxLabel + 1 THEN EncErr(buf, "NameLengthExceeded")
    ELSE EncodeParts_LimitPlusOne(parts, i + 1, (buf \o <<Len(parts[i]) % 256>>) \o parts[i],
                                  byte_count + 1 + Len(parts[i]))

\* lib.rs:24-38, the loop of encode_str over the segments.
RECURSIVE EncodeParts(_, _, _, _)
EncodeParts(parts, i, buf, byte_count) ==
    IF i > Len(parts) THEN EncOk(Append(buf, 0), byte_count + 1)
    ELSE IF Len(parts[i]) > MaxLabel THEN EncErr(buf, "NameLengthExceeded")
    ELSE EncodeParts(parts, i + 1, (buf \o <<Len(parts[i]) % 256>>) \o parts[i],
                     byte_count + 1 + Len(parts[i]))

\* encode_str(s, buf)
EncodeStr(s, buf) == EncodeParts(Split(s), 1, buf, 0)

(***************************************************************************)
(* Name codec: decode, resolve, flatten                                    *)
(***************************************************************************)

\* std::str::from_utf8 succeeds: the bytes are well-formed UTF-8.  Every
\* byte that is not a continuation byte (0x80..0xBF) starts a sequence;
\* Utf8Width is the length its lead byte announces (0 for a byte that
\* cannot lead), Utf8Second the range of the byte after it.
Utf8Width(c) ==
    IF c < 128 THEN 1
    ELSE IF c \in 194..223 THEN 2
    ELSE IF c \in 224..239 THEN 3
    ELSE IF c \in 240..244 THEN 4
    ELSE 0

Utf8Second(c) ==
    CASE c = 224 -> 160..191
      [] c = 237 -> 128..159
      [] c = 240 -> 144..191
      [] c = 244 -> 128..143
      [] OTHER -> 128..191

Utf8Valid(b) ==
    /\ Len(b) > 0 => b[1] \notin 128..191
    /\ \A i \in 1..Len(b) :
           b[i] \notin 128..191 =>
               /\ Utf8Width(b[i]) > 0
               /\ i + Utf8Width(b[i]) - 1 <= Len(b)
               /\ Utf8Width(b[i]) > 1 => b[i + 1] \in Utf8Second(b[i])
               /\ \A j \in (i + 2)..(i + Utf8Width(b[i]) - 1) : b[j] \in 128..191
               /\ i + Utf8Width(b[i]) <= Len(b) => b[i + Utf8Width(b[i])] \notin 128..191

\* enum Name
NameLabel(bytes) == <<"Name", bytes>>
NamePointer(off) == <<"Pointer", off>>
NameResolved(names) == <<"ResolvedPtr", names>>

\* parser.rs:214-228, one token of a name through the bit cursor: two flag
\* bits, then a 14-bit offset when they are 11, else six more bits that are
\* or-ed under flags << 6 to give the length.
ReadNameRecord(input) ==
    IF Len(input) < 1 THEN NomErr
    ELSE Bind(TakeBits(input, 0, 2), LAMBDA flags :
         IF flags = 3
         THEN IF Len(input) < 2 THEN NomErr
              ELSE NomOk(Drop(input, 2), <<"Offset", TakeBits(input, 2, 14)>>)
         ELSE NomOk(Drop(input, 1),
                    <<"Length", BitOr((flags * 64) % 256, TakeBits(input, 2, 6))>>))

\* parser.rs:212-250, the loop of read_names.
RECURSIVE ReadNamesLoop(_, _)
ReadNamesLoop(input, qname) ==
    Bind(ReadNameRecord(input), LAMBDA r :
    IF r.st # "Ok" THEN NomErr
    ELSE IF r.val[1] = "Offset"
         THEN NomOk(r.rest, Append(qname, NamePointer(r.val[2])))
    ELSE IF r.val[2] = 0 THEN NomOk(r.rest, qname)
    ELSE IF Len(r.rest) < r.val[2] THEN NomErr
    ELSE Bind(Take(r.rest, r.val[2]), LAMBDA label :
         IF ~Utf8Valid(label) THEN NomErr
         ELSE ReadNamesLoop(Drop(r.rest, r.val[2]), Append(qname, NameLabel(label)))))

\* read_names(input)
ReadNames(input) == ReadNamesLoop(input, <<>>)

\* Results of functions returning Result<T> with MessageError, and an abort
\* of the call (a panic) as a third outcome.
ResOk(val) == [st |-> "Ok", err |-> "none", val |-> val]

ResErr(e) == [st |-> "Err", err |-> e, val |-> <<>>]

ResPanic == [st |-> "Panic", err |-> "none", val |-> <<>>]

\* resolve_names storing what it read at a pointer's target as it is,
\* without resolving the pointers inside it.
RECURSIVE ResolveFrom_Shallow(_, _, _, _)
ResolveFrom_Shallow(input, names, i, seen) ==
    IF i > Len(names) THEN ResOk(<<names, seen>>)
    ELSE IF names[i][1] # "Pointer" THEN ResolveFrom_Shallow(input, names, i + 1, seen)
    ELSE Bind(names[i][2], LAMBDA ptr :
         IF ptr \in seen THEN ResErr("CircularReference")
         ELSE IF ptr > Len(input) THEN ResPanic
         ELSE Bind(ReadNames(Drop(input, ptr)), LAMBDA rn :
              IF rn.st # "Ok" THEN ResErr("ParsingError")
              ELSE ResolveFrom_Shallow(input, [names EXCEPT ![i] = NameResolved(rn.val)],
                                       i + 1, seen \cup {ptr})))

\* resolve_names(input, names, seen_ptrs), from element i of names on; val
\* is the pair of the resolved names and seen_ptrs after the call.
RECURSIVE ResolveFrom(_, _, _, _)
ResolveFrom(input, names, i, seen) ==
    IF i > Len(names) THEN ResOk(<<names, seen>>)
    ELSE IF names[i][1] # "Pointer" THEN ResolveFrom(input, names, i + 1, seen)
    ELSE Bind(names[i][2], LAMBDA ptr :
         IF ptr \in seen THEN ResErr("CircularReference")
         ELSE IF ptr > Len(input) THEN ResPanic
         ELSE Bind(ReadNames(Drop(input, ptr)), LAMBDA rn :
              IF rn.st # "Ok" THEN ResErr("ParsingError")
              ELSE Bind(ResolveFrom(input, rn.val, 1, seen \cup {ptr}), LAMBDA sub :
                   IF sub.st # "Ok" THEN sub
                   ELSE ResolveFrom(input,
                                    [names EXCEPT ![i] = NameResolved(sub.val[1])],
                                    i + 1, sub.val[2]))))

ResolveNames(input, names, seen) == ResolveFrom(input, names, 1, seen)

\* flatten_to_string(names)
RECURSIVE FlattenFrom(_, _, _), FlattenToString(_)
FlattenFrom(names, i, name) ==
    IF i > Len(names) THEN name
    ELSE IF names[i][1] = "Name"
         THEN FlattenFrom(names, i + 1, Append(name \o names[i][2], Dot))
    ELSE IF names[i][1] = "ResolvedPtr"
         THEN FlattenFrom(names, i + 1, name \o FlattenToString(names[i][2]))
    ELSE FlattenFrom(names, i + 1, name)

FlattenToString(names) ==
    Bind(FlattenFrom(names, 1, <<>>), LAMBDA name :
    IF Len(name) > 0 /\ name[Len(name)] = Dot THEN Take(name, Len(name) - 1)
    ELSE name)

(***************************************************************************)
(* Record codecs: Type, Class, Question, ResourceRecord, RData             *)
(***************************************************************************)

Named(k) == [k |-> k, v |-> 0]

Unknown(n) == [k |-> "Unknown", v |-> n]

\* impl From<u16> for Type
TypeFromU16(val) ==
    CASE val = 1 -> Named("A")          [] val = 2 -> Named("NS")
      [] val = 3 -> Named("MD")         [] val = 4 -> Named("MF")
      [] val = 5 -> Named("CNAME")      [] val = 6 -> Named("SOA")
      [] val = 7 -> Named("MB")         [] val = 8 -> Named("MG")
      [] val = 9 -> Named("MR")         [] val = 10 -> Named("NULL")
      [] val = 11 -> Named("WKS")       [] val = 12 -> Named("PTR")
      [] val = 13 -> Named("HINFO")     [] val = 14 -> Named("MINFO")
      [] val = 15 -> Named("MX")        [] val = 16 -> Named("TXT")
      [] val = 28 -> Named("AAAA")      [] val = 252 -> Named("AXFR")
      [] val = 253 -> Named("MAILB")    [] val = 254 -> Named("MAILA")
      [] val = 255 -> Named("STAR")
      [] OTHER -> Unknown(val)

\* impl From<Type> for u16, and the value Type::to_bytes writes
TypeToU16(t) ==
    CASE t.k = "A" -> 1          [] t.k = "NS" -> 2
      [] t.k = "MD" -> 3         [] t.k = "MF" -> 4
      [] t.k = "CNAME" -> 5      [] t.k = "SOA" -> 6
      [] t.k = "MB" -> 7         [] t.k = "MG" -> 8
      [] t.k = "MR" -> 9         [] t.k = "NULL" -> 10
      [] t.k = "WKS" -> 11       [] t.k = "PTR" -> 12
      [] t.k = "HINFO" -> 13     [] t.k = "MINFO" -> 14
      [] t.k = "MX" -> 15        [] t.k = "TXT" -> 16
      [] t.k = "AAAA" -> 28      [] t.k = "AXFR" -> 252
      [] t.k = "MAILB" -> 253    [] t.k = "MAILA" -> 254
      [] t.k = "STAR" -> 255
      [] OTHER -> t.v

\* impl From<u16> for Class
ClassFromU16(val) ==
    CASE val = 1 -> Named("IN")   [] val = 2 -> Named("CS")
      [] val = 3 -> Named("CH")   [] val = 4 -> Named("HS")
      [] val = 255 -> Named("STAR")
      [] OTHER -> Unknown(val)

\* the value Class::to_bytes writes
ClassToU16(c) ==
    CASE c.k = "IN" -> 1   [] c.k = "CS" -> 2
      [] c.k = "CH" -> 3   [] c.k = "HS" -> 4
      [] c.k = "STAR" -> 255
      [] OTHER -> c.v

\* read_question: RawQuestion
ReadQuestion(input) ==
    Bind(ReadNames(input), LAMBDA n : IF n.st # "Ok" THEN NomErr ELSE
    Bind(ReadU16(n.rest), LAMBDA t : IF t.st # "Ok" THEN NomErr ELSE
    Bind(ReadU16(t.rest), LAMBDA c : IF c.st # "Ok" THEN NomErr ELSE
    NomOk(c.rest, [qname |-> n.val, qtype |-> TypeFromU16(t.val),
                   qclass |-> ClassFromU16(c.val)]))))

\* read_resource_record leaving the cursor where the payload's own decoder
\* would stop: after the name of a CNAME, after the four bytes of an A.
ReadResourceRecord_CursorAfterPayload(input) ==
    Bind(ReadNames(input), LAMBDA n : IF n.st # "Ok" THEN NomErr ELSE
    Bind(ReadU16(n.rest), LAMBDA t : IF t.st # "Ok" THEN NomErr ELSE
    Bind(ReadU16(t.rest), LAMBDA c : IF c.st # "Ok" THEN NomErr ELSE
    Bind(ReadU32(c.rest), LAMBDA l : IF l.st # "Ok" THEN NomErr ELSE
    Bind(ReadU16(l.rest), LAMBDA d : IF d.st # "Ok" THEN NomErr ELSE
    IF Len(d.rest) < d.val THEN NomErr
    ELSE NomOk(IF t.val = 5 /\ ReadNames(Take(d.rest, d.val)).st = "Ok"
                   THEN ReadNames(d.rest).rest
               ELSE IF t.val = 1 /\ d.val >= 4 THEN Drop(d.rest, 4)
               ELSE Drop(d.rest, d.val),
               [name |-> n.val, rtype |-> TypeFromU16(t.val),
                class |-> ClassFromU16(c.val), ttl |-> l.val,
                rdata |-> Take(d.rest, d.val)]))))))

\* read_resource_record: RawResourceRecord; rdata is a copy of exactly
\* rdlength bytes.
ReadResourceRecord(input) ==
    Bind(ReadNames(input), LAMBDA n : IF n.st # "Ok" THEN NomErr ELSE
    Bind(ReadU16(n.rest), LAMBDA t : IF t.st # "Ok" THEN NomErr ELSE
    Bind(ReadU16(t.rest), LAMBDA c : IF c.st # "Ok" THEN NomErr ELSE
    Bind(ReadU32(c.rest), LAMBDA l : IF l.st # "Ok" THEN NomErr ELSE
    Bind(ReadU16(l.rest), LAMBDA d : IF d.st # "Ok" THEN NomErr ELSE
    IF Len(d.rest) < d.val THEN NomErr
    ELSE NomOk(Drop(d.rest, d.val),
               [name |-> n.val, rtype |-> TypeFromU16(t.val),
                class |-> ClassFromU16(c.val), ttl |-> l.val,
                rdata |-> Take(d.rest, d.val)]))))))

\* enum RData
RDataA(b) == <<"A", b>>
RDataCNAME(name) == <<"CNAME", name>>
RDataSOA(mname, rname, serial, refresh, retry, expire, minimum) ==
    <<"SOA", mname, rname, serial, refresh, retry, expire, minimum>>
RDataTXT(str) == <<"TXT", str>>
RDataAAAA(b) == <<"AAAA", b>>
RDataRaw(code, bytes) == <<"Raw", code, bytes>>

\* parser.rs:71-76 and 78-84: read_names on a slice, resolve_names against
\* the whole message with a fresh HashSet, flatten_to_string; val is the
\* pair of the string and the slice left after the name.
ReadResolvedName(input, slice) ==
    Bind(ReadNames(slice), LAMBDA n : IF n.st # "Ok" THEN ResErr("ParsingError") ELSE
    Bind(ResolveNames(input, n.val, {}), LAMBDA r : IF r.st # "Ok" THEN r ELSE
    ResOk(<<FlattenToString(r.val[1]), n.rest>>)))

\* The SOA arm with one HashSet for both names: the offsets visited for
\* mname are still in the set when rname is resolved.
SoaFromRdata_SharedSeen(input, rdata) ==
    Bind(ReadNames(rdata), LAMBDA m : IF m.st # "Ok" THEN ResErr("ParsingError") ELSE
    Bind(ResolveNames(input, m.val, {}), LAMBDA rm : IF rm.st # "Ok" THEN rm ELSE
    Bind(ReadNames(m.rest), LAMBDA r : IF r.st # "Ok" THEN ResErr("ParsingError") ELSE
    Bind(ResolveNames(input, r.val, rm.val[2]), LAMBDA rr : IF rr.st # "Ok" THEN rr ELSE
    Bind(ReadU32(r.rest), LAMBDA f1 : IF f1.st # "Ok" THEN ResErr("ParsingError") ELSE
    Bind(ReadU32(f1.rest), LAMBDA f2 : IF f2.st # "Ok" THEN ResErr("ParsingError") ELSE
    Bind(ReadU32(f2.rest), LAMBDA f3 : IF f3.st # "Ok" THEN ResErr("ParsingError") ELSE
    Bind(ReadU32(f3.rest), LAMBDA f4 : IF f4.st # "Ok" THEN ResErr("ParsingError") ELSE
    Bind(ReadU32(f4.rest), LAMBDA f5 : IF f5.st # "Ok" THEN ResErr("ParsingError") ELSE
    ResOk(RDataSOA(FlattenToString(rm.val[1]), FlattenToString(rr.val[1]),
                   f1.val, f2.val, f3.val, f4.val, f5.val)))))))))))

\* parser.rs:77-93, the SOA arm of from_irr.
SoaFromRdata(input, rdata) ==
    Bind(ReadResolvedName(input, rdata), LAMBDA m : IF m.st # "Ok" THEN m ELSE
    Bind(ReadResolvedName(input, m.val[2]), LAMBDA r : IF r.st # "Ok" THEN r ELSE
    Bind(ReadU32(r.val[2]), LAMBDA f1 : IF f1.st # "Ok" THEN ResErr("ParsingError") ELSE
    Bind(ReadU32(f1.rest), LAMBDA f2 : IF f2.st # "Ok" THEN ResErr("ParsingError") ELSE
    Bind(ReadU32(f2.rest), LAMBDA f3 : IF f3.st # "Ok" THEN ResErr("ParsingError") ELSE
    Bind(ReadU32(f3.rest), LAMBDA f4 : IF f4.st # "Ok" THEN ResErr("ParsingError") ELSE
    Bind(ReadU32(f4.rest), LAMBDA f5 : IF f5.st # "Ok" THEN ResErr("ParsingError") ELSE
    ResOk(RDataSOA(m.val[1], r.val[1], f1.val, f2.val, f3.val, f4.val, f5.val)))))))))

\* parser.rs:64-101, the match of from_irr on the record type.  Indexing
\* irr.rdata[0..3] and slicing input[0..16] abort the call when the bytes
\* are not there.
RDataFromRaw(input, irr) ==
    CASE irr.rtype.k = "A" ->
            IF Len(irr.rdata) < 4 THEN ResPanic ELSE ResOk(RDataA(Take(irr.rdata, 4)))
      [] irr.rtype.k = "CNAME" ->
            Bind(ReadResolvedName(input, irr.rdata), LAMBDA n :
            IF n.st # "Ok" THEN n ELSE ResOk(RDataCNAME(n.val[1])))
      [] irr.rtype.k = "SOA" -> SoaFromRdata(input, irr.rdata)
      [] irr.rtype.k = "TXT" ->
            IF Utf8Valid(irr.rdata) THEN ResOk(RDataTXT(irr.rdata))
            ELSE ResErr("EncodingError")
      [] irr.rtype.k = "AAAA" ->
            IF Len(input) < 16 THEN ResPanic ELSE ResOk(RDataAAAA(Take(input, 16)))
      [] OTHER -> ResOk(RDataRaw(TypeToU16(irr.rtype), irr.rdata))

\* from_irr(input, irr): ResourceRecord
FromIrr(input, irr) ==
    Bind(RDataFromRaw(input, irr), LAMBDA d :
    IF d.st # "Ok" THEN d
    ELSE ResOk([name |-> FlattenToString(irr.name), data |-> d.val,
                class |-> irr.class, ttl |-> irr.ttl]))

\* impl From<RawQuestion> for Question
QuestionFrom(iq) ==
    [q_name |-> FlattenToString(iq.qname), q_type |-> iq.qtype, q_class |-> iq.qclass]

(***************************************************************************)
(* Message assembler: decode                                               *)
(***************************************************************************)

\* parser.rs:322-327, the loop reading qd_count questions.
RECURSIVE ReadQuestions(_, _, _)
ReadQuestions(input, n, acc) ==
    IF n = 0 THEN NomOk(input, acc)
    ELSE Bind(ReadQuestion(input), LAMBDA q :
         IF q.st # "Ok" THEN NomErr
         ELSE ReadQuestions(q.rest, n - 1, Append(acc, q.val)))

\* The loop over a section's records ending without error where the
\* buffer ends.
RECURSIVE ReadRecords_StopsAtEnd(_, _, _)
ReadRecords_StopsAtEnd(input, n, acc) ==
    IF n = 0 THEN NomOk(input, acc)
    ELSE Bind(ReadResourceRecord(input), LAMBDA r :
         IF r.st # "Ok" THEN NomOk(input, acc)
         ELSE ReadRecords_StopsAtEnd(r.rest, n - 1, Append(acc, r.val)))

\* parser.rs:329-348, one of the three loops reading a section's records.
RECURSIVE ReadRecords(_, _, _)
ReadRecords(input, n, acc) ==
    IF n = 0 THEN NomOk(input, acc)
    ELSE Bind(ReadResourceRecord(input), LAMBDA r :
         IF r.st # "Ok" THEN NomErr
         ELSE ReadRecords(r.rest, n - 1, Append(acc, r.val)))

\* parser.rs:353-355, resolve_names on every question name, each with a
\* new HashSet.
RECURSIVE ResolveQuestions(_, _, _)
ResolveQuestions(input, qs, i) ==
    IF i > Len(qs) THEN ResOk(qs)
    ELSE Bind(ResolveNames(input, qs[i].qname, {}), LAMBDA r :
         IF r.st # "Ok" THEN r
         ELSE ResolveQuestions(input, [qs EXCEPT ![i].qname = r.val[1]], i + 1))

\* parser.rs:356-364, resolve_names on every record name of a section.
RECURSIVE ResolveRecords(_, _, _)
ResolveRecords(input, rs, i) ==
    IF i > Len(rs) THEN ResOk(rs)
    ELSE Bind(ResolveNames(input, rs[i].name, {}), LAMBDA r :
         IF r.st # "Ok" THEN r
         ELSE ResolveRecords(input, [rs EXCEPT ![i].name = r.val[1]], i + 1))

\* parser.rs:369-372, drain(..).map(from_irr).collect::<Result<Vec<_>>>()
RECURSIVE FromIrrAll(_, _, _, _)
FromIrrAll(input, rs, i, acc) ==
    IF i > Len(rs) THEN ResOk(acc)
    ELSE Bind(FromIrr(input, rs[i]), LAMBDA r :
         IF r.st # "Ok" THEN r
         ELSE FromIrrAll(input, rs, i + 1, Append(acc, r.val)))

\* parser.rs:368
RECURSIVE QuestionsFrom(_, _, _)
QuestionsFrom(qs, i, acc) ==
    IF i > Len(qs) THEN acc
    ELSE QuestionsFrom(qs, i + 1, Append(acc, QuestionFrom(qs[i])))

\* as_message converting each section's RDATA right after resolving that
\* section's names, before the names of the next section are resolved.
AsMessage_RdataFirst(input) ==
    Bind(ReadHeader(input), LAMBDA h :
        IF h.st # "Ok" THEN ResErr("ParsingError") ELSE
    Bind(ReadQuestions(h.rest, h.val.qd_count, <<>>), LAMBDA qs :
        IF qs.st # "Ok" THEN ResErr("ParsingError") ELSE
    Bind(ReadRecords(qs.rest, h.val.an_count, <<>>), LAMBDA an :
        IF an.st # "Ok" THEN ResErr("ParsingError") ELSE
    Bind(ReadRecords(an.rest, h.val.ns_count, <<>>), LAMBDA ns :
        IF ns.st # "Ok" THEN ResErr("ParsingError") ELSE
    Bind(ReadRecords(ns.rest, h.val.ar_count, <<>>), LAMBDA ar :
        IF ar.st # "Ok" THEN ResErr("ParsingError") ELSE
    Bind(ResolveQuestions(input, qs.val, 1), LAMBDA rqs : IF rqs.st # "Ok" THEN rqs ELSE
    Bind(ResolveRecords(input, an.val, 1), LAMBDA ran : IF ran.st # "Ok" THEN ran ELSE
    Bind(FromIrrAll(input, ran.val, 1, <<>>), LAMBDA fan : IF fan.st # "Ok" THEN fan ELSE
    Bind(ResolveRecords(input, ns.val, 1), LAMBDA rns : IF rns.st # "Ok" THEN rns ELSE
    Bind(FromIrrAll(input, rns.val, 1, <<>>), LAMBDA fns : IF fns.st # "Ok" THEN fns ELSE
    Bind(ResolveRecords(input, ar.val, 1), LAMBDA rar : IF rar.st # "Ok" THEN rar ELSE
    Bind(FromIrrAll(input, rar.val, 1, <<>>), LAMBDA far : IF far.st # "Ok" THEN far ELSE
    ResOk([header |-> h.val.header,
           questions |-> QuestionsFrom(rqs.val, 1, <<>>),
           answers |-> fan.val,
           name_servers |-> fns.val,
           additional_records |-> far.val])))))))))))))

\* as_message(input): Result<Message>
AsMessage(input) ==
    Bind(ReadHeader(input), LAMBDA h :
        IF h.st # "Ok" THEN ResErr("ParsingError") ELSE
    Bind(ReadQuestions(h.rest, h.val.qd_count, <<>>), LAMBDA qs :
        IF qs.st # "Ok" THEN ResErr("ParsingError") ELSE
    Bind(ReadRecords(qs.rest, h.val.an_count, <<>>), LAMBDA an :
        IF an.st # "Ok" THEN ResErr("ParsingError") ELSE
    Bind(ReadRecords(an.rest, h.val.ns_count, <<>>), LAMBDA ns :
        IF ns.st # "Ok" THEN ResErr("ParsingError") ELSE
    Bind(ReadRecords(ns.rest, h.val.ar_count, <<>>), LAMBDA ar :
        IF ar.st # "Ok" THEN ResErr("ParsingError") ELSE
    Bind(ResolveQuestions(input, qs.val, 1), LAMBDA rqs : IF rqs.st # "Ok" THEN rqs ELSE
    Bind(ResolveRecords(input, an.val, 1), LAMBDA ran : IF ran.st # "Ok" THEN ran ELSE
    Bind(ResolveRecords(input, ns.val, 1), LAMBDA rns : IF rns.st # "Ok" THEN rns ELSE
    Bind(ResolveRecords(input, ar.val, 1), LAMBDA rar : IF rar.st # "Ok" THEN rar ELSE
    Bind(FromIrrAll(input, ran.val, 1, <<>>), LAMBDA fan : IF fan.st # "Ok" THEN fan ELSE
    Bind(FromIrrAll(input, rns.val, 1, <<>>), LAMBDA fns : IF fns.st # "Ok" THEN fns ELSE
    Bind(FromIrrAll(input, rar.val, 1, <<>>), LAMBDA far : IF far.st # "Ok" THEN far ELSE
    ResOk([header |-> h.val.header,
           questions |-> QuestionsFrom(rqs.val, 1, <<>>),
           answers |-> fan.val,
           name_servers |-> fns.val,
           additional_records |-> far.val])))))))))))))

\* parser.rs:311-315, read_message: map_res(take(input.len()), as_message).
\* nom's map_res keeps only the input and ErrorKind::MapRes of a failed
\* closure; the MessageError as_message returned is dropped.
ReadMessage(am) ==
    IF am.st = "Ok" THEN NomOk(<<>>, am.val)
    ELSE IF am.st = "Panic" THEN [st |-> "Panic", rest |-> <<>>, val |-> <<>>]
    ELSE NomErr

\* message.rs:20-26 with error.rs:22-26: Message::from_bytes given the
\* outcome am of as_message; `?` turns a nom::Err into ParsingError.
FromBytesOf(am) ==
    Bind(ReadMessage(am), LAMBDA r :
    IF r.st = "Ok" THEN ResOk(r.val)
    ELSE IF r.st = "Panic" THEN ResPanic
    ELSE ResErr("ParsingError"))

\* Message::from_bytes(input)
FromBytes(input) == FromBytesOf(AsMessage(input))

(***************************************************************************)
(* Message assembler: encode                                               *)
(***************************************************************************)

EncPanic(buf) == [st |-> "Panic", buf |-> buf, n |-> 0, err |-> "none"]

\* Question::to_bytes
QuestionToBytes(q, buf) ==
    Bind(EncodeStr(q.q_name, buf), LAMBDA n :
    IF n.st # "Ok" THEN n
    ELSE EncOk((n.buf \o U16ToBe(TypeToU16(q.q_type))) \o U16ToBe(ClassToU16(q.q_class)),
               n.n + 2 + 2))

\* RData::as_u16 with the code of MX in the TXT arm.
RDataAsU16_TxtAsMx(d) ==
    CASE d[1] = "A" -> 1       [] d[1] = "NS" -> 2     [] d[1] = "MD" -> 3
      [] d[1] = "MF" -> 4      [] d[1] = "CNAME" -> 5  [] d[1] = "SOA" -> 6
      [] d[1] = "MB" -> 7      [] d[1] = "MG" -> 8     [] d[1] = "MR" -> 9
      [] d[1] = "NULL" -> 10   [] d[1] = "WKS" -> 11   [] d[1] = "PTR" -> 12
      [] d[1] = "HINFO" -> 13  [] d[1] = "MINFO" -> 14 [] d[1] = "MX" -> 15
      [] d[1] = "TXT" -> 15    [] d[1] = "AAAA" -> 28
      [] OTHER -> d[2]

\* RData::as_u16
RDataAsU16(d) ==
    CASE d[1] = "A" -> 1       [] d[1] = "NS" -> 2     [] d[1] = "MD" -> 3
      [] d[1] = "MF" -> 4      [] d[1] = "CNAME" -> 5  [] d[1] = "SOA" -> 6
      [] d[1] = "MB" -> 7      [] d[1] = "MG" -> 8     [] d[1] = "MR" -> 9
      [] d[1] = "NULL" -> 10   [] d[1] = "WKS" -> 11   [] d[1] = "PTR" -> 12
      [] d[1] = "HINFO" -> 13  [] d[1] = "MINFO" -> 14 [] d[1] = "MX" -> 15
      [] d[1] = "TXT" -> 16    [] d[1] = "AAAA" -> 28
      [] OTHER -> d[2]

\* resource_record.rs:185-197, the SOA arm of RData::to_bytes.
SoaToBytes(d, buf) ==
    Bind(EncodeStr(d[2], buf), LAMBDA m : IF m.st # "Ok" THEN m ELSE
    Bind(EncodeStr(d[3], m.buf), LAMBDA r : IF r.st # "Ok" THEN r ELSE
    EncOk(((((r.buf \o U32ToBe(d[4])) \o U32ToBe(d[5])) \o U32ToBe(d[6]))
             \o U32ToBe(d[7])) \o U32ToBe(d[8]),
          m.n + r.n + 20)))

\* RData::to_bytes; the variants without a case reach todo!().
RDataToBytes(d, buf) ==
    CASE d[1] = "Raw" -> EncOk(buf \o d[3], Len(d[3]))
      [] d[1] = "A" -> EncOk(buf \o d[2], 4)
      [] d[1] = "CNAME" -> EncodeStr(d[2], buf)
      [] d[1] = "SOA" -> SoaToBytes(d, buf)
      [] d[1] = "TXT" -> EncOk(buf \o d[2], Len(d[2]))
      [] d[1] = "AAAA" -> EncOk(buf \o d[2], 16)
      [] OTHER -> EncPanic(buf)

\* ResourceRecord::to_bytes without the byte_count += 2 of the rdlength.
ResourceRecordToBytes_LengthUncounted(rr, buf) ==
    Bind(EncodeStr(rr.name, buf), LAMBDA n : IF n.st # "Ok" THEN n ELSE
    Bind(((n.buf \o U16ToBe(RDataAsU16(rr.data))) \o U16ToBe(ClassToU16(rr.class)))
             \o U32ToBe(rr.ttl), LAMBDA b2 :
    Bind(RDataToBytes(rr.data, <<>>), LAMBDA rd :
    IF rd.st = "Err" THEN EncErr(b2, rd.err)
    ELSE IF rd.st = "Panic" THEN EncPanic(b2)
    ELSE EncOk((b2 \o U16ToBe(rd.n % 65536)) \o rd.buf, n.n + 2 + 2 + 4 + rd.n))))

\* ResourceRecord::to_bytes
ResourceRecordToBytes(rr, buf) ==
    Bind(EncodeStr(rr.name, buf), LAMBDA n : IF n.st # "Ok" THEN n ELSE
    Bind(((n.buf \o U16ToBe(RDataAsU16(rr.data))) \o U16ToBe(ClassToU16(rr.class)))
             \o U32ToBe(rr.ttl), LAMBDA b2 :
    Bind(RDataToBytes(rr.data, <<>>), LAMBDA rd :
    IF rd.st = "Err" THEN EncErr(b2, rd.err)
    ELSE IF rd.st = "Panic" THEN EncPanic(b2)
    ELSE EncOk((b2 \o U16ToBe(rd.n % 65536)) \o rd.buf, n.n + 2 + 2 + 4 + rd.n + 2))))

\* message.rs:33-35, the loop over the questions.
RECURSIVE QuestionsToBytes(_, _, _, _)
QuestionsToBytes(qs, i, buf, byte_count) ==
    IF i > Len(qs) THEN EncOk(buf, byte_count)
    ELSE Bind(QuestionToBytes(qs[i], buf), LAMBDA r :
         IF r.st # "Ok" THEN r
         ELSE QuestionsToBytes(qs, i + 1, r.buf, byte_count + r.n))

\* message.rs:36-44, one of the three loops over a section's records.
RECURSIVE RecordsToBytes(_, _, _, _)
RecordsToBytes(rs, i, buf, byte_count) ==
    IF i > Len(rs) THEN EncOk(buf, byte_count)
    ELSE Bind(ResourceRecordToBytes(rs[i], buf), LAMBDA r :
         IF r.st # "Ok" THEN r
         ELSE RecordsToBytes(rs, i + 1, r.buf, byte_count + r.n))

\* Message::to_bytes(&self, buf)
MessageToBytes(m, buf) ==
    Bind(HeaderToBytes(m.header,
                       <<Len(m.questions), Len(m.answers), Len(m.name_servers),
                         Len(m.additional_records)>>, buf),
         LAMBDA h : IF h.st # "Ok" THEN h ELSE
    Bind(QuestionsToBytes(m.questions, 1, h.buf, h.n), LAMBDA qs : IF qs.st # "Ok" THEN qs ELSE
    Bind(RecordsToBytes(m.answers, 1, qs.buf, qs.n), LAMBDA an : IF an.st # "Ok" THEN an ELSE
    Bind(RecordsToBytes(m.name_servers, 1, an.buf, an.n), LAMBDA ns : IF ns.st # "Ok" THEN ns ELSE
    RecordsToBytes(m.additional_records, 1, ns.buf, ns.n)))))

(***************************************************************************)
(* Header harness: Header::to_bytes on Header values, read_header on the   *)
(* bytes it wrote and on 12-byte wire headers.                             *)
(***************************************************************************)

\* header.rs:124 and :182, Unknown(u8): the largest value a caller can put
\* into OpCode::Unknown and RCode::Unknown.
U8Max == 255

\* Section lengths tried by the header harness: 0..MaxCount each.
MaxCount == 2

\* header.rs:91-100, `len() as u16`: the largest length a count field holds.
U16Max == 65535

\* Section lengths around the width of the count fields.
LongSections == {<<U16Max, 0, 0, 0>>, <<U16Max + 1, 0, 0, 0>>, <<1, 0, 0, U16Max + 2>>}

NoEnc == [st |-> "none", buf |-> <<>>, n |-> 0, err |-> "none"]

NoDec == [st |-> "none", rest |-> <<>>, val |-> <<>>]

NoRes == [st |-> "none", err |-> "none", val |-> <<>>]

\* The harnesses not running under a specification rest in these states.
HdrIdle ==
    /\ hpc = "idle" /\ hdr = <<>> /\ hcounts = <<0, 0, 0, 0>> /\ hwire = <<>>
    /\ henc = NoEnc /\ hdec = NoDec

NameIdle == npc = "idle" /\ nstr = <<>> /\ nenc = NoEnc /\ nback = NoDec

MsgIdle ==
    /\ mpc = "idle" /\ mbuf = <<>> /\ mxbuf = <<>> /\ mtags = {}
    /\ masm = NoRes /\ mdec = NoRes /\ mxdec = NoRes /\ menc = NoEnc /\ mdec2 = NoRes

ResIdle ==
    /\ rpc = "idle" /\ rbuf = <<>> /\ rstack = <<>> /\ rseen = {} /\ rcalls = 0
    /\ rout = NoRes

EncIdle == epc = "idle" /\ emsg = <<>> /\ eout = <<>> /\ eres = NoEnc

FmtIdle ==
    /\ fpc = "idle" /\ ferr = <<>> /\ fwriter = <<>>
    /\ fdepth = 0 /\ fwritten = 0 /\ fres = "none"

RelayIdle ==
    /\ spc = "idle" /\ slogging = FALSE /\ stasks = <<>> /\ srecv = <<>>
    /\ srxerrs = 0 /\ sguard = 0 /\ sframe = <<>> /\ ssent = <<>>

BldIdle == bpc = "idle" /\ bcalls = <<>> /\ bres = NoRes /\ bdec = NoRes

FlagNames == {"qr", "aa", "tc", "rd", "ra", "ad", "cd"}

AllFlags == [FlagNames -> BOOLEAN]

FewFlags == {[n \in FlagNames |-> FALSE], [n \in FlagNames |-> TRUE],
             [n \in FlagNames |-> n = "rd"], [n \in FlagNames |-> n = "ra"]}

AllOpCodes == {OpQuery, OpIQuery, OpStatus} \cup {OpUnknown(n) : n \in 0..U8Max}

AllRCodes == {RcNoError, RcFormatError, RcServerFailure, RcNameError,
              RcNotImplemented, RcRefused} \cup {RcUnknown(n) : n \in 0..U8Max}

FewOpCodes == {OpQuery, OpUnknown(MaxOpCode), OpUnknown(MaxOpCode + 1)}

FewRCodes == {RcNoError, RcRefused, RcUnknown(6), RcUnknown(15), RcUnknown(16),
              RcUnknown(64), RcUnknown(128)}

MkHeader(id, f, op, rc) ==
    [id |-> id, qr |-> f["qr"], opcode |-> op, aa |-> f["aa"], tc |-> f["tc"],
     rd |-> f["rd"], ra |-> f["ra"], ad |-> f["ad"], cd |-> f["cd"], rcode |-> rc]

\* builder.rs MessageBuilder::new: id 0, flags false, Query, NoError.
DefaultHeader == MkHeader(0, [n \in FlagNames |-> FALSE], OpQuery, RcNoError)

HdrInputs ==
    {MkHeader(21450, f, op, rc) : f \in AllFlags, op \in FewOpCodes, rc \in FewRCodes}
    \cup {MkHeader(0, f, op, rc) : f \in FewFlags, op \in AllOpCodes,
                                   rc \in {RcNoError, RcUnknown(15)}}
    \cup {MkHeader(65535, f, op, rc) : f \in FewFlags, op \in {OpQuery, OpUnknown(MaxOpCode)},
                                       rc \in AllRCodes}

WireInputs ==
    {<<83, 202, b3, b4, 0, 1, 0, 0, 0, 2, 1, 3>> : b3 \in 0..U8Max, b4 \in 0..U8Max}

HdrInit ==
    /\ \/ /\ hpc = "enc"
          /\ hdr \in HdrInputs
          /\ hcounts = <<1, 0, 0, 1>>
          /\ hwire = <<>>
       \/ /\ hpc = "enc"
          /\ hdr = DefaultHeader
          /\ hcounts \in [1..4 -> 0..MaxCount] \cup LongSections
          /\ hwire = <<>>
       \/ /\ hpc = "wire"
          /\ hdr = DefaultHeader
          /\ hcounts = <<0, 0, 0, 0>>
          /\ hwire \in WireInputs
    /\ henc = NoEnc
    /\ hdec = NoDec
    /\ NameIdle
    /\ MsgIdle
    /\ ResIdle
    /\ EncIdle
    /\ FmtIdle
    /\ RelayIdle
    /\ BldIdle

\* Header::to_bytes into an empty buffer.
EncodeHeader ==
    /\ hpc = "enc"
    /\ henc' = HeaderToBytes(hdr, hcounts, <<>>)
    /\ hpc' = "encoded"
    /\ UNCHANGED <<hdr, hcounts, hwire, hdec, nameVars, msgVars, resVars, encVars,
                   fmtVars, relayVars, bldVars>>

\* read_header on the bytes Header::to_bytes wrote.
DecodeWritten ==
    /\ hpc = "encoded"
    /\ henc.st = "Ok"
    /\ hwire' = henc.buf
    /\ hdec' = ReadHeader(henc.buf)
    /\ hpc' = "redecoded"
    /\ UNCHANGED <<hdr, hcounts, henc, nameVars, msgVars, resVars, encVars,
                   fmtVars, relayVars, bldVars>>

\* read_header on a wire header.
DecodeWire ==
    /\ hpc = "wire"
    /\ hdec' = ReadHeader(hwire)
    /\ hpc' = "decoded"
    /\ UNCHANGED <<hdr, hcounts, hwire, henc, nameVars, msgVars, resVars, encVars,
                   fmtVars, relayVars, bldVars>>

HdrNext == EncodeHeader \/ DecodeWritten \/ DecodeWire

SpecHdr == HdrInit /\ [][HdrNext]_vars

(***************************************************************************)
(* Name harness: encode_str on dotted strings, then read_names and         *)
(* flatten_to_string on the bytes it wrote.                                *)
(***************************************************************************)

\* Most segments in a string handed to encode_str.
MaxSegs == 3

\* Segment lengths tried, around the label limit.
SegLens == {0, 1, 62, 63, 64, 65}

Fill(n, c) == [i \in 1..n |-> c]

\* The string whose k-th segment is lens[k] bytes of the k-th letter.
RECURSIVE JoinSegs(_, _)
JoinSegs(lens, k) ==
    IF k > Len(lens) THEN <<>>
    ELSE IF k = Len(lens) THEN Fill(lens[k], 96 + k)
    ELSE (Fill(lens[k], 96 + k) \o <<Dot>>) \o JoinSegs(lens, k + 1)

NameInputs == {JoinSegs(lens, 1) : lens \in UNION {[1..n -> SegLens] : n \in 1..MaxSegs}}

NameInit ==
    /\ npc = "str"
    /\ nstr \in NameInputs
    /\ nenc = NoEnc
    /\ nback = NoDec
    /\ HdrIdle
    /\ MsgIdle
    /\ ResIdle
    /\ EncIdle
    /\ FmtIdle
    /\ RelayIdle
    /\ BldIdle

\* encode_str into an empty buffer.
EncodeName ==
    /\ npc = "str"
    /\ nenc' = EncodeStr(nstr, <<>>)
    /\ npc' = "encoded"
    /\ UNCHANGED <<nstr, nback, hdrVars, msgVars, resVars, encVars,
                   fmtVars, relayVars, bldVars>>

\* read_names on the bytes encode_str wrote, and flatten_to_string of the
\* names read.
ReadBackName ==
    /\ npc = "encoded"
    /\ nenc.st = "Ok"
    /\ nback' = LET r == ReadNames(nenc.buf)
                IN  IF r.st = "Ok" THEN NomOk(r.rest, FlattenToString(r.val)) ELSE NomErr
    /\ npc' = "readback"
    /\ UNCHANGED <<nstr, nenc, hdrVars, msgVars, resVars, encVars,
                   fmtVars, relayVars, bldVars>>

NameNext == EncodeName \/ ReadBackName

SpecName == NameInit /\ [][NameNext]_vars

NameEncoded == npc \in {"encoded", "readback"}

\* C8: encode_str fails, with NameLengthExceeded, exactly when the string
\* holds a dot-free run of more than 63 bytes (a segment longer than 63).
C8_LabelLimit ==
    NameEncoded =>
        /\ (nenc.st = "Err") <=>
               (\E i \in 1..Len(nstr) :
                    /\ i + 63 <= Len(nstr)
                    /\ \A k \in i..(i + 63) : nstr[k] # 46)
        /\ (nenc.st = "Err" => nenc.err = "NameLengthExceeded")

C8_Witness ==
    /\ NameEncoded
    /\ nenc.st = "Ok"
    /\ \E i \in 1..Len(nstr) :
           /\ i + 62 <= Len(nstr)
           /\ \A k \in i..(i + 62) : nstr[k] # 46

(***************************************************************************)
(* Message harness: Message::from_bytes on datagrams, to_bytes on the      *)
(* Message decoded, from_bytes again on the bytes written.  Each datagram  *)
(* comes with its twin, the same message with every compression pointer    *)
(* replaced by the labels it stands for.                                   *)
(***************************************************************************)

\* The most records a built datagram carries.
MaxRecs == 2

\* The question name of every built datagram, "a.bc", at offset 12: the
\* label "a" at 12, the label "bc" at 14, the terminating zero at 17.
QName == <<1, 97, 2, 98, 99, 0>>

Ptr(off) == <<192 + (off \div 256), off % 256>>

NameForms == {"lit", "ptrQ", "labPtr", "root", "ptrRoot", "long"}

BadNameForms == {"self", "labSelf", "oob"}

\* The bytes of a name written at offset off, compressed (z) or expanded.
NameBytes(f, off, z) ==
    CASE f = "qname"   -> QName
      [] f = "lit"     -> <<1, 120, 0>>
      [] f = "ptrQ"    -> IF z THEN Ptr(12) ELSE QName
      [] f = "labPtr"  -> IF z THEN <<1, 120>> \o Ptr(14) ELSE <<1, 120, 2, 98, 99, 0>>
      [] f = "root"    -> <<0>>
      [] f = "ptrRoot" -> IF z THEN Ptr(17) ELSE <<0>>
      [] f = "long"    -> (<<64>> \o [i \in 1..64 |-> 97]) \o <<0>>
      [] f = "self"    -> Ptr(off)
      [] f = "labSelf" -> <<1, 120>> \o Ptr(off)
      [] f = "oob"     -> <<255, 255>>

RdForms == {"a", "a5", "ns", "cname", "cnameLab", "cnamePad", "soa", "soaSame", "txt", "aaaa",
            "opt", "unk"}

BadRdForms == {"aShort", "cnameSelf", "cnameOob", "txtBad"}

RdType(f) ==
    CASE f \in {"a", "a5", "aShort"} -> 1
      [] f = "ns" -> 2
      [] f \in {"cname", "cnameLab", "cnamePad", "cnameSelf", "cnameOob"} -> 5
      [] f \in {"soa", "soaSame"} -> 6
      [] f \in {"txt", "txtBad"} -> 16
      [] f = "aaaa" -> 28
      [] f = "opt" -> 41
      [] f = "unk" -> 999

\* The RDATA written at offset off, compressed (z) or expanded.
RdataBytes(f, off, z) ==
    CASE f = "a"         -> <<10, 0, 0, 1>>
      [] f = "a5"        -> <<10, 0, 0, 1, 9>>
      [] f = "aShort"    -> <<10, 0>>
      [] f = "ns"        -> NameBytes("ptrQ", off, z)
      [] f = "cname"     -> NameBytes("ptrQ", off, z)
      [] f = "cnameLab"  -> NameBytes("labPtr", off, z)
      [] f = "cnamePad"  -> NameBytes("ptrQ", off, z) \o <<9, 9>>
      [] f = "cnameSelf" -> Ptr(off)
      [] f = "cnameOob"  -> <<255, 255>>
      [] f = "soa"       -> ((((NameBytes("ptrQ", off, z) \o NameBytes("labPtr", off, z))
                                \o <<0, 0, 0, 7>> \o <<0, 0, 14, 16>>)
                                \o <<0, 0, 3, 132>>) \o <<0, 9, 58, 128>>) \o <<0, 0, 0, 60>>
      [] f = "soaSame"   -> ((((NameBytes("ptrQ", off, z) \o NameBytes("ptrQ", off, z))
                                \o <<0, 0, 0, 7>> \o <<0, 0, 14, 16>>)
                                \o <<0, 0, 3, 132>>) \o <<0, 9, 58, 128>>) \o <<0, 0, 0, 60>>
      [] f = "txt"       -> <<104, 105>>
      [] f = "txtBad"    -> <<255>>
      [] f = "aaaa"      -> <<32, 1, 13, 184, 0, 0, 0, 0, 0, 0, 0, 0, 0, 0, 0, 1>>
      [] f = "opt"       -> <<0, 10, 0, 2, 7, 7>>
      [] f = "unk"       -> <<1, 2, 3>>

\* One resource record (name, type, class IN, ttl 600, rdlength, rdata)
\* written at offset off.
RecBytes(r, off, z) ==
    Bind(NameBytes(r.n, off, z), LAMBDA nb :
    Bind(RdataBytes(r.d, off + Len(nb) + 10, z), LAMBDA rd :
    ((((nb \o U16ToBe(RdType(r.d))) \o <<0, 1>>) \o <<0, 0, 2, 88>>)
        \o U16ToBe(Len(rd))) \o rd))

RECURSIVE RecsBytes(_, _, _, _)
RecsBytes(rs, i, acc, z) ==
    IF i > Len(rs) THEN acc
    ELSE RecsBytes(rs, i + 1, acc \o RecBytes(rs[i], Len(acc), z), z)

\* A datagram: id 0x1234, the flag word fl, the four counts, one question
\* (qf, type A, class IN) and the records rs.
Datagram(fl, counts, qf, rs, z) ==
    LET q == NameBytes(qf, 12, z) \o <<0, 1, 0, 1>>
        h == (((((<<18, 52>> \o fl) \o U16ToBe(1)) \o U16ToBe(counts[1]))
                 \o U16ToBe(counts[2])) \o U16ToBe(counts[3]))
    IN  RecsBytes(rs, 1, h \o q, z)

\* How the records of a datagram are spread over its three sections.
Splits(k) ==
    IF k = 0 THEN {<<0, 0, 0>>}
    ELSE IF k = 1 THEN {<<1, 0, 0>>, <<0, 0, 1>>}
    ELSE {<<k, 0, 0>>, <<1, k - 2, 1>>}

Rec(n, d) == [n |-> n, d |-> d]

\* What a datagram was built from: the forms of its names and RDATA, "twin"
\* when every form is well formed (so the expanded datagram is the same
\* message), "cycle" when a name points back at itself, "past" when a
\* pointer leads past the end of the datagram.
FormTags(qf, rs) ==
    LET nf == {qf} \cup {rs[i].n : i \in 1..Len(rs)}
        df == {rs[i].d : i \in 1..Len(rs)}
    IN  nf \cup df
        \cup (IF nf \subseteq (NameForms \ {"long"}) \cup {"qname"} /\ df \subseteq RdForms
                 THEN {"twin"} ELSE {})
        \cup (IF (nf \cap {"self", "labSelf"}) # {} \/ "cnameSelf" \in df
                 THEN {"cycle"} ELSE {})
        \cup (IF "oob" \in nf \/ "cnameOob" \in df THEN {"past"} ELSE {})

Built(fl, counts, qf, rs) ==
    [buf  |-> Datagram(fl, counts, qf, rs, TRUE),
     xbuf |-> Datagram(fl, counts, qf, rs, FALSE),
     tags |-> FormTags(qf, rs)]

\* parser.rs:450-499, the query of test_parse_question: rd and ad set, one
\* question www.google.com, one OPT record under the root name.
TestParseQuestion ==
    <<83, 202, 1, 32, 0, 1, 0, 0, 0, 0, 0, 1,
      3, 119, 119, 119, 6, 103, 111, 111, 103, 108, 101, 3, 99, 111, 109, 0, 0, 1, 0, 1,
      0, 0, 41, 16, 0, 0, 0, 0, 0, 0, 12, 0, 10, 0, 8, 107, 120, 163, 147, 238, 31, 231, 235>>

\* parser.rs:546-562, the response of test_deserialize_serialize_deserialize.
TestDeserializeSerialize ==
    <<219, 66, 129, 128, 0, 1, 0, 1, 0, 0, 0, 0, 3, 119, 119, 119, 12, 110, 111, 114, 116, 104,
      101, 97, 115, 116, 101, 114, 110, 3, 101, 100, 117, 0, 0, 1, 0, 1, 192, 12, 0, 1,
      0, 1, 0, 0, 2, 88, 0, 4, 155, 33, 17, 68>>

\* parser.rs:768-789, the response of test_parse_soa.
TestParseSoa ==
    <<52, 123, 129, 128, 0, 1, 0, 1, 0, 0, 0, 0, 5, 114, 121, 97, 110, 116, 3, 111, 114, 103,
      0, 0, 6, 0, 1, 192, 12, 0, 6, 0, 1, 0, 0, 84, 95, 0, 81, 11, 110, 115, 45, 99, 108,
      111, 117, 100, 45, 97, 49, 13, 103, 111, 111, 103, 108, 101, 100, 111, 109, 97, 105,
      110, 115, 3, 99, 111, 109, 0, 20, 99, 108, 111, 117, 100, 45, 100, 110, 115, 45, 104,
      111, 115, 116, 109, 97, 115, 116, 101, 114, 6, 103, 111, 111, 103, 108, 101, 192, 65,
      0, 0, 0, 1, 0, 0, 84, 96, 0, 0, 14, 16, 0, 3, 244, 128, 0, 0, 1, 44>>

\* parser.rs:564-678, the response of test_deserialize_multi_answer: a
\* CNAME chain in which the name of each answer points into the RDATA of
\* the answer before it.
TestDeserializeMultiAnswer ==
    <<208, 7, 129, 128, 0, 1, 0, 4, 0, 0, 0, 0,
      3, 119, 119, 119, 9, 109, 105, 99, 114, 111, 115, 111, 102, 116, 3, 99, 111, 109, 0,
      0, 1, 0, 1,
      192, 12, 0, 5, 0, 1, 0, 0, 5, 224, 0, 35,
      3, 119, 119, 119, 9, 109, 105, 99, 114, 111, 115, 111, 102, 116, 7, 99, 111, 109, 45,
      99, 45, 51, 7, 101, 100, 103, 101, 107, 101, 121, 3, 110, 101, 116, 0,
      192, 47, 0, 5, 0, 1, 0, 0, 17, 174, 0, 55,
      3, 119, 119, 119, 9, 109, 105, 99, 114, 111, 115, 111, 102, 116, 7, 99, 111, 109, 45,
      99, 45, 51, 7, 101, 100, 103, 101, 107, 101, 121, 3, 110, 101, 116, 11, 103, 108, 111,
      98, 97, 108, 114, 101, 100, 105, 114, 6, 97, 107, 97, 100, 110, 115, 192, 77,
      192, 94, 0, 5, 0, 1, 0, 0, 3, 102, 0, 25,
      6, 101, 49, 51, 54, 55, 56, 4, 100, 115, 112, 98, 10, 97, 107, 97, 109, 97, 105, 101,
      100, 103, 101, 192, 77,
      192, 161, 0, 1, 0, 1, 0, 0, 0, 5, 0, 4, 23, 40, 73, 65>>

Given(b, t) == [buf |-> b, xbuf |-> b, tags |-> t]

\* Flag words: rd only; qr, rd and ra; none; qr, aa, rd and rcode 3; the
\* reserved bit.
FlagWords == {<<1, 0>>, <<129, 128>>, <<0, 0>>, <<133, 3>>, <<0, 64>>}

SmallRecs == {Rec("ptrQ", "a"), Rec("labPtr", "cname"), Rec("lit", "soa"), Rec("root", "opt"),
              Rec("ptrQ", "cnamePad"), Rec("lit", "a5")}

OneRecord ==
    { Built(<<1, 0>>, s, "qname", <<Rec(n, d)>>) :
          n \in NameForms \cup BadNameForms, d \in RdForms \cup BadRdForms, s \in Splits(1) }

ManyRecords ==
    UNION { { Built(<<129, 128>>, s, "qname", rs) : rs \in [1..k -> SmallRecs], s \in Splits(k) } :
                k \in 2..MaxRecs }

FlagVariety ==
    { Built(fl, <<Len(rs), 0, 0>>, "qname", rs) :
          fl \in FlagWords, rs \in {<<>>, <<Rec("ptrQ", "a")>>} }

QuestionVariety ==
    { Built(<<1, 0>>, <<0, 0, 0>>, qf, <<>>) :
          qf \in {"lit", "root", "long", "self", "labSelf", "oob"} }

Truncated ==
    LET whole == Datagram(<<129, 128>>, <<1, 0, 0>>, "qname", <<Rec("ptrQ", "a")>>, TRUE)
    IN  { Given(Take(whole, n), {"trunc"}) : n \in 0..(Len(whole) - 1) }
        \cup { Given(Datagram(<<129, 128>>, c, "qname", <<Rec("ptrQ", "a")>>, TRUE), {"trunc"}) :
                   c \in {<<2, 0, 0>>, <<1, 1, 0>>, <<1, 0, 1>>} }

FromTests ==
    { Given(TestParseQuestion, {"repo"}), Given(TestDeserializeSerialize, {"repo"}),
      Given(TestParseSoa, {"repo"}), Given(TestDeserializeMultiAnswer, {"repo"}) }

\* An answer whose RDATA does not decode, before an additional record
\* under a name that points at itself.
ErrorThenCycle ==
    { Built(<<129, 128>>, <<1, 0, 1>>, "qname", <<Rec("lit", d), Rec(n, "a")>>) :
          d \in BadRdForms, n \in {"self", "labSelf"} }

\* A question under a name with a pointer that cannot be resolved, in a
\* datagram that ends inside its answer or declares a record it does not
\* hold.
BadNameThenCut ==
    UNION { LET whole == Datagram(<<129, 128>>, <<1, 0, 0>>, qf, <<Rec("lit", "a")>>, TRUE)
                start == 12 + Len(NameBytes(qf, 12, TRUE)) + 4
            IN  { Given(Take(whole, n), {"trunc", qf}) : n \in start..(Len(whole) - 1) }
                \cup { Given(Datagram(<<129, 128>>, <<1, 0, 1>>, qf, <<Rec("lit", "a")>>, TRUE),
                             {"trunc", qf}) } :
            qf \in BadNameForms }

Datagrams == OneRecord \cup ManyRecords \cup FlagVariety \cup QuestionVariety
                 \cup Truncated \cup FromTests \cup ErrorThenCycle \cup BadNameThenCut

Init ==
    /\ HdrIdle
    /\ NameIdle
    /\ ResIdle
    /\ EncIdle
    /\ FmtIdle
    /\ RelayIdle
    /\ BldIdle
    /\ mpc = "start"
    /\ \E d \in Datagrams : mbuf = d.buf /\ mxbuf = d.xbuf /\ mtags = d.tags
    /\ masm = NoRes /\ mdec = NoRes /\ mxdec = NoRes /\ menc = NoEnc /\ mdec2 = NoRes

\* let m = Message::from_bytes(&buf)
Decode ==
    /\ mpc = "start"
    /\ masm' = AsMessage(mbuf)
    /\ mdec' = FromBytesOf(masm')
    /\ mpc' = "decoded"
    /\ UNCHANGED <<mbuf, mxbuf, mtags, mxdec, menc, mdec2, hdrVars, nameVars, resVars, encVars,
                   fmtVars, relayVars, bldVars>>

\* Message::from_bytes on the expanded twin of the datagram.
DecodeTwin ==
    /\ mpc = "decoded"
    /\ "twin" \in mtags
    /\ mxdec' = FromBytes(mxbuf)
    /\ mpc' = "compared"
    /\ UNCHANGED <<mbuf, mxbuf, mtags, masm, mdec, menc, mdec2, hdrVars, nameVars, resVars, encVars,
                   fmtVars, relayVars, bldVars>>

\* m.to_bytes(&mut out) on a Message that from_bytes returned
Encode ==
    /\ \/ mpc = "compared"
       \/ mpc = "decoded" /\ "twin" \notin mtags
    /\ mdec.st = "Ok"
    /\ menc' = MessageToBytes(mdec.val, <<>>)
    /\ mpc' = "encoded"
    /\ UNCHANGED <<mbuf, mxbuf, mtags, masm, mdec, mxdec, mdec2, hdrVars, nameVars, resVars, encVars,
                   fmtVars, relayVars, bldVars>>

\* Message::from_bytes(&out) on the bytes to_bytes wrote
Redecode ==
    /\ mpc = "encoded"
    /\ menc.st = "Ok"
    /\ mdec2' = FromBytes(menc.buf)
    /\ mpc' = "redecoded"
    /\ UNCHANGED <<mbuf, mxbuf, mtags, masm, mdec, mxdec, menc, hdrVars, nameVars, resVars, encVars,
                   fmtVars, relayVars, bldVars>>

Next == Decode \/ DecodeTwin \/ Encode \/ Redecode

Spec == Init /\ [][Next]_vars

(***************************************************************************)
(* Resolve harness: resolve_names run one step at a time on the name that  *)
(* starts a buffer, each nested call a frame of rstack.                    *)
(***************************************************************************)

\* The longest buffer a name is resolved against.
MaxResolveLen == 5

\* Bytes of the buffers: the terminator, label lengths and offsets 1, 2
\* and 4, and the pointer marker.
ResolveBytes == {0, 1, 2, 4, 192}

ResolveBufs == UNION { [1..n -> ResolveBytes] : n \in 1..MaxResolveLen }

Frame(names, i) == [names |-> names, i |-> i]

Top == rstack[Len(rstack)]

AtPointer ==
    /\ rpc = "run"
    /\ Top.i <= Len(Top.names)
    /\ Top.names[Top.i][1] = "Pointer"

\* let (_, names) = read_names(input)?; resolve_names(input, &mut names,
\* &mut HashSet::new()) as read_question and read_resource_record's callers do.
ResolveInit ==
    /\ HdrIdle
    /\ NameIdle
    /\ MsgIdle
    /\ EncIdle
    /\ FmtIdle
    /\ RelayIdle
    /\ BldIdle
    /\ rpc = "run"
    /\ rbuf \in ResolveBufs
    /\ ReadNames(rbuf).st = "Ok"
    /\ rstack = <<Frame(ReadNames(rbuf).val, 1)>>
    /\ rseen = {}
    /\ rcalls = 0
    /\ rout = NoRes

\* parser.rs:393-413, the loop passes an element that is not a Pointer.
ResolveSkip ==
    /\ rpc = "run"
    /\ Top.i <= Len(Top.names)
    /\ Top.names[Top.i][1] # "Pointer"
    /\ rstack' = [rstack EXCEPT ![Len(rstack)].i = @ + 1]
    /\ UNCHANGED <<rpc, rbuf, rseen, rcalls, rout, hdrVars, nameVars, msgVars, encVars,
                   fmtVars, relayVars, bldVars>>

\* parser.rs:396-404, the pointer is in seen_ptrs.
ResolveCircular ==
    /\ AtPointer
    /\ Top.names[Top.i][2] \in rseen
    /\ rout' = ResErr("CircularReference")
    /\ rpc' = "done"
    /\ UNCHANGED <<rbuf, rstack, rseen, rcalls, hdrVars, nameVars, msgVars, encVars,
                   fmtVars, relayVars, bldVars>>

\* parser.rs:405-406, &input[*ptr as usize..input.len()] with the offset
\* past the end of input.
ResolveSliceAbort ==
    /\ AtPointer
    /\ Top.names[Top.i][2] \notin rseen
    /\ Top.names[Top.i][2] > Len(rbuf)
    /\ rseen' = rseen \cup {Top.names[Top.i][2]}
    /\ rout' = ResPanic
    /\ rpc' = "done"
    /\ UNCHANGED <<rbuf, rstack, rcalls, hdrVars, nameVars, msgVars, encVars,
                   fmtVars, relayVars, bldVars>>

\* parser.rs:405-406, read_names fails at the offset.
ResolveReadFails ==
    /\ AtPointer
    /\ Top.names[Top.i][2] \notin rseen
    /\ Top.names[Top.i][2] <= Len(rbuf)
    /\ ReadNames(Drop(rbuf, Top.names[Top.i][2])).st # "Ok"
    /\ rseen' = rseen \cup {Top.names[Top.i][2]}
    /\ rout' = ResErr("ParsingError")
    /\ rpc' = "done"
    /\ UNCHANGED <<rbuf, rstack, rcalls, hdrVars, nameVars, msgVars, encVars,
                   fmtVars, relayVars, bldVars>>

\* parser.rs:405-407, the nested call resolve_names(input, &mut names, seen_ptrs).
ResolveFollow ==
    /\ AtPointer
    /\ Top.names[Top.i][2] \notin rseen
    /\ Top.names[Top.i][2] <= Len(rbuf)
    /\ ReadNames(Drop(rbuf, Top.names[Top.i][2])).st = "Ok"
    /\ rseen' = rseen \cup {Top.names[Top.i][2]}
    /\ rstack' = Append(rstack, Frame(ReadNames(Drop(rbuf, Top.names[Top.i][2])).val, 1))
    /\ rcalls' = rcalls + 1
    /\ UNCHANGED <<rpc, rbuf, rout, hdrVars, nameVars, msgVars, encVars,
                   fmtVars, relayVars, bldVars>>

\* parser.rs:409 and :414, a call returns Ok(()) and its caller stores
\* Name::ResolvedPtr(names).
ResolveReturn ==
    /\ rpc = "run"
    /\ Top.i > Len(Top.names)
    /\ IF Len(rstack) = 1
          THEN /\ rout' = ResOk(<<Top.names, rseen>>)
               /\ rpc' = "done"
               /\ UNCHANGED rstack
          ELSE /\ rstack' = [Take(rstack, Len(rstack) - 1) EXCEPT
                                ![Len(rstack) - 1] =
                                    Frame([@.names EXCEPT ![@.i] = NameResolved(Top.names)],
                                          @.i + 1)]
               /\ UNCHANGED <<rpc, rout>>
    /\ UNCHANGED <<rbuf, rseen, rcalls, hdrVars, nameVars, msgVars, encVars,
                   fmtVars, relayVars, bldVars>>

ResolveNext ==
    \/ ResolveSkip
    \/ ResolveCircular
    \/ ResolveSliceAbort
    \/ ResolveReadFails
    \/ ResolveFollow
    \/ ResolveReturn

SpecResolve == ResolveInit /\ [][ResolveNext]_vars

\* resolve_names is sequential code: a call that can take a step takes it.
FairResolve == SpecResolve /\ WF_vars(ResolveNext)

(***************************************************************************)
(* Encode harness: Message::to_bytes on Message values a caller builds,    *)
(* into a buffer that may already hold bytes.                              *)
(***************************************************************************)

\* The most answers of a Message handed to to_bytes.
MaxEncRecs == 2

\* resource_record.rs:71-145, the RData variants that carry no payload.
RDataUnit(k) == <<k>>

\* The variants RData::to_bytes has no arm for.
NoEncodeCase == {"NS", "MD", "MF", "MB", "MG", "MR", "NULL", "WKS", "PTR", "HINFO",
                 "MINFO", "MX"}

\* "a.bc"
NameABC == <<97, 46, 98, 99>>

\* A name whose only segment is one byte over the label limit.
NameTooLong == Fill(MaxLabel + 1, 97)

EncDatas ==
    {RDataA(<<10, 0, 0, 1>>), RDataCNAME(NameABC), RDataCNAME(NameTooLong),
     RDataSOA(NameABC, <<120>>, 7, 3600, 900, 604800, 60),
     RDataSOA(NameABC, NameTooLong, 7, 3600, 900, 604800, 60),
     RDataTXT(<<104, 105>>), RDataAAAA(Fill(16, 1)), RDataRaw(999, <<1, 2, 3>>)}
    \cup {RDataUnit(k) : k \in NoEncodeCase}

MkRecord(name, data) == [name |-> name, data |-> data, class |-> Named("IN"), ttl |-> 600]

MkQuestion(name) == [q_name |-> name, q_type |-> Named("A"), q_class |-> Named("IN")]

EncRecords ==
    {MkRecord(NameABC, d) : d \in EncDatas}
    \cup {MkRecord(n, RDataA(<<10, 0, 0, 1>>)) : n \in {<<>>, NameTooLong}}

MkMessage(h, qs, an, ns, ar) ==
    [header |-> h, questions |-> qs, answers |-> an, name_servers |-> ns,
     additional_records |-> ar]

\* Every choice of up to MaxEncRecs answers under one question, and every
\* choice of opcode and questions around at most one record per section.
EncMessages ==
    {MkMessage(DefaultHeader, <<MkQuestion(NameABC)>>, an, <<>>, <<>>) :
         an \in UNION {[1..k -> EncRecords] : k \in 0..MaxEncRecs}}
    \cup {MkMessage([DefaultHeader EXCEPT !.opcode = op], qs, an, ns, ar) :
              op \in FewOpCodes,
              qs \in {<<>>, <<MkQuestion(NameABC)>>, <<MkQuestion(NameTooLong)>>,
                      <<MkQuestion(NameABC), MkQuestion(<<>>)>>},
              an \in {<<>>, <<MkRecord(NameABC, RDataA(<<10, 0, 0, 1>>))>>},
              ns \in {<<>>, <<MkRecord(NameABC, RDataCNAME(NameABC))>>},
              ar \in {<<>>, <<MkRecord(<<120>>, RDataRaw(41, <<>>))>>}}

\* What the caller's buffer holds before the call.
EncBuffers == {<<>>, <<7, 7, 7>>}

EncInit ==
    /\ HdrIdle
    /\ NameIdle
    /\ MsgIdle
    /\ ResIdle
    /\ FmtIdle
    /\ RelayIdle
    /\ BldIdle
    /\ epc = "msg"
    /\ emsg \in EncMessages
    /\ eout \in EncBuffers
    /\ eres = NoEnc

\* let n = emsg.to_bytes(&mut out), out holding eout before the call.
EncodeMessage ==
    /\ epc = "msg"
    /\ eres' = MessageToBytes(emsg, eout)
    /\ epc' = "done"
    /\ UNCHANGED <<emsg, eout, hdrVars, nameVars, msgVars, resVars,
                   fmtVars, relayVars, bldVars>>

EncNext == EncodeMessage

SpecEnc == EncInit /\ [][EncNext]_vars

(***************************************************************************)
(* Format harness: <MessageError as fmt::Display>::fmt, error.rs:15-20     *)
(***************************************************************************)

\* The calls of fmt that fit on the stack of the formatting thread.
MaxFmtDepth == 16

\* The number of prefixes a writer of fixed capacity takes before its
\* write_str fails.
MaxWriterCap == 2

\* error.rs:5-11, enum MessageError
MkError(k, n, str) == [k |-> k, n |-> n, s |-> str]

MessageErrors ==
    { MkError("ParsingError", 0, "Nom(MapRes)"), MkError("EncodingError", 0, "invalid utf-8"),
      MkError("CircularReference", 0, "pointer 12"), MkError("ReservedOpCode", 0, ""),
      MkError("NameLengthExceeded", 64, "a"), MkError("NameLengthExceeded", 255, "b") }

\* What a Formatter writes to: a String, as to_string() and the tracing fmt
\* subscriber use, or a buffer that fails when it is full.
Writers == { [kind |-> "String", cap |-> 0] }
               \cup { [kind |-> "Fixed", cap |-> c] : c \in 0..MaxWriterCap }

FmtInit ==
    /\ HdrIdle
    /\ NameIdle
    /\ MsgIdle
    /\ ResIdle
    /\ EncIdle
    /\ RelayIdle
    /\ BldIdle
    /\ fpc = "start"
    /\ ferr \in MessageErrors
    /\ fwriter \in Writers
    /\ fdepth = 0
    /\ fwritten = 0
    /\ fres = "none"

\* A caller formats ferr with "{}": e.to_string(), error!("...: {}", e).
FmtCall ==
    /\ fpc = "start"
    /\ fpc' = "fmt"
    /\ fdepth' = 1
    /\ UNCHANGED <<ferr, fwriter, fwritten, fres, hdrVars, nameVars, msgVars, resVars,
                   encVars, relayVars, bldVars>>

\* error.rs:17, write!(f, "InvalidMessageError: {}", self): the literal
\* piece is written first; `?` returns the writer's error.
FmtWritePrefix ==
    /\ fpc = "fmt"
    /\ IF fwriter.kind = "Fixed" /\ fwritten >= fwriter.cap
          THEN fpc' = "unwind" /\ UNCHANGED fwritten
          ELSE fpc' = "arg" /\ fwritten' = fwritten + 1
    /\ UNCHANGED <<ferr, fwriter, fdepth, fres, hdrVars, nameVars, msgVars, resVars,
                   encVars, relayVars, bldVars>>

\* error.rs:17, the argument of "{}" is self: its Display::fmt is this
\* function, called again on a new stack frame.
FmtRecurse ==
    /\ fpc = "arg"
    /\ fdepth < MaxFmtDepth
    /\ fdepth' = fdepth + 1
    /\ fpc' = "fmt"
    /\ UNCHANGED <<ferr, fwriter, fwritten, fres, hdrVars, nameVars, msgVars, resVars,
                   encVars, relayVars, bldVars>>

\* The same call with no room left on the stack: the runtime aborts the
\* process.
FmtOverflow ==
    /\ fpc = "arg"
    /\ fdepth = MaxFmtDepth
    /\ fpc' = "overflow"
    /\ UNCHANGED <<ferr, fwriter, fdepth, fwritten, fres, hdrVars, nameVars, msgVars,
                   resVars, encVars, relayVars, bldVars>>

\* error.rs:17, `?`: a call whose write! failed returns the error to the
\* write! of its caller.
FmtUnwind ==
    /\ fpc = "unwind"
    /\ fdepth' = fdepth - 1
    /\ IF fdepth = 1 THEN fpc' = "done" /\ fres' = "Err"
                     ELSE UNCHANGED <<fpc, fres>>
    /\ UNCHANGED <<ferr, fwriter, fwritten, hdrVars, nameVars, msgVars, resVars,
                   encVars, relayVars, bldVars>>

\* error.rs:18, Ok(()), is reached by a call only after its write! returned
\* Ok, that is after the call it made returned Ok: no call is the first.
FmtNext == FmtCall \/ FmtWritePrefix \/ FmtRecurse \/ FmtOverflow \/ FmtUnwind

SpecFmt == FmtInit /\ [][FmtNext]_vars

\* The formatting thread keeps running until it returns or is aborted.
FairFmt == SpecFmt /\ WF_vars(FmtNext)

(***************************************************************************)
(* Relay: Server::run and send_dns_request, server.rs:38-135               *)
(***************************************************************************)

\* The datagrams the stream yields in one run.
MaxDatagrams == 2

\* The receive errors the stream yields in one run.
MaxRecvErrors == 1

\* Client addresses.
Clients == {"192.0.2.1:5353", "192.0.2.2:5353"}

\* What the bytes of a datagram and the upstream resolver make of its task:
\*   "answered"          every step succeeds
\*   "undecodable"       Message::from_bytes fails on the datagram
\*   "unencodableQuery"  to_bytes fails on the decoded query (server.rs:115)
\*   "upstreamIo"        bind, connect, send or recv fails (server.rs:111-121)
\*   "upstreamGarbage"   Message::from_bytes fails on the reply (server.rs:126)
\*   "unencodableReply"  to_bytes fails on the decoded reply (server.rs:85)
\*   "sendFails"         the sink's send fails (server.rs:94)
Fates == {"answered", "undecodable", "unencodableQuery", "upstreamIo", "upstreamGarbage",
          "unencodableReply", "sendFails"}

\* server.rs:75, 88, 129: error!("...: {}", e) with e a MessageError, or an
\* anyhow::Error whose Display is the MessageError's.  With a subscriber
\* installed the event is formatted: Display::fmt of error.rs:15-20 calls
\* itself until the stack is exhausted and the runtime aborts the process.
\* Without one the event is dropped unformatted.
LogMessageError == IF slogging THEN "aborted" ELSE "running"

\* Where the task of datagram t stands and what awaits it; "none" before
\* the datagram has arrived.
TaskPc(t) == IF t \in 1..Len(stasks) THEN stasks[t].pc ELSE "none"

TaskFate(t) == IF t \in 1..Len(stasks) THEN stasks[t].fate ELSE "none"

\* server.rs:63-94, addr is moved into the task when it is spawned.
ReplyAddr(t) == stasks[t].addr

\* The sink's tokio Mutex let every task in at once.
SinkFree_NoMutex == TRUE

\* server.rs:94, sink.lock().await returns when no other guard is alive.
SinkFree == sguard = 0

RelayInit ==
    /\ HdrIdle
    /\ NameIdle
    /\ MsgIdle
    /\ ResIdle
    /\ EncIdle
    /\ FmtIdle
    /\ BldIdle
    /\ spc = "running"
    /\ slogging \in BOOLEAN
    /\ stasks = <<>>
    /\ srecv = <<>>
    /\ srxerrs = 0
    /\ sguard = 0
    /\ sframe = <<>>
    /\ ssent = <<>>

\* server.rs:45-63, stream.next() yields Some(Ok((bytes, addr))) and the
\* loop spawns a task for it.
Receive(addr, fate) ==
    /\ spc = "running"
    /\ Len(stasks) < MaxDatagrams
    /\ srecv' = Append(srecv, [addr |-> addr, fate |-> fate])
    /\ stasks' = Append(stasks, [pc |-> "spawned", addr |-> addr, fate |-> fate])
    /\ UNCHANGED <<spc, slogging, srxerrs, sguard, sframe, ssent, hdrVars, nameVars,
                   msgVars, resVars, encVars, fmtVars, bldVars>>

\* server.rs:47-53, stream.next() yields Some(Err(e)): the io::Error is
\* logged and the loop continues.
RecvError ==
    /\ spc = "running"
    /\ srxerrs < MaxRecvErrors
    /\ srxerrs' = srxerrs + 1
    /\ UNCHANGED <<spc, slogging, stasks, srecv, sguard, sframe, ssent, hdrVars, nameVars,
                   msgVars, resVars, encVars, fmtVars, bldVars>>

\* server.rs:65-69, Message::from_bytes(..).unwrap() and mod_req: the
\* panic of unwrap ends the task, the runtime keeps running.
TaskDecode(t) ==
    /\ spc = "running"
    /\ TaskPc(t) = "spawned"
    /\ stasks' = [stasks EXCEPT ![t].pc =
                      IF stasks[t].fate = "undecodable" THEN "panicked" ELSE "exchange"]
    /\ UNCHANGED <<spc, slogging, srecv, srxerrs, sguard, sframe, ssent, hdrVars, nameVars,
                   msgVars, resVars, encVars, fmtVars, bldVars>>

\* server.rs:72-78 with 109-135, send_dns_request(&message).await and the
\* logging of its error.
TaskExchange(t) ==
    /\ spc = "running"
    /\ TaskPc(t) = "exchange"
    /\ IF stasks[t].fate \in {"unencodableQuery", "upstreamGarbage"}
          THEN /\ spc' = LogMessageError
               /\ stasks' = [stasks EXCEPT ![t].pc = "failed"]
       ELSE IF stasks[t].fate = "upstreamIo"
          THEN /\ stasks' = [stasks EXCEPT ![t].pc = "failed"]
               /\ UNCHANGED spc
       ELSE /\ stasks' = [stasks EXCEPT ![t].pc = "encode"]
            /\ UNCHANGED spc
    /\ UNCHANGED <<slogging, srecv, srxerrs, sguard, sframe, ssent, hdrVars, nameVars,
                   msgVars, resVars, encVars, fmtVars, bldVars>>

\* server.rs:80-91, mod_resp and r_message.to_bytes(&mut buf).
TaskEncode(t) ==
    /\ spc = "running"
    /\ TaskPc(t) = "encode"
    /\ IF stasks[t].fate = "unencodableReply"
          THEN /\ spc' = LogMessageError
               /\ stasks' = [stasks EXCEPT ![t].pc = "failed"]
          ELSE /\ stasks' = [stasks EXCEPT ![t].pc = "lock"]
               /\ UNCHANGED spc
    /\ UNCHANGED <<slogging, srecv, srxerrs, sguard, sframe, ssent, hdrVars, nameVars,
                   msgVars, resVars, encVars, fmtVars, bldVars>>

\* server.rs:94, sink.lock().await
TaskLock(t) ==
    /\ spc = "running"
    /\ TaskPc(t) = "lock"
    /\ SinkFree
    /\ sguard' = t
    /\ stasks' = [stasks EXCEPT ![t].pc = "start"]
    /\ UNCHANGED <<spc, slogging, srecv, srxerrs, sframe, ssent, hdrVars, nameVars,
                   msgVars, resVars, encVars, fmtVars, bldVars>>

\* server.rs:94, .send((buf.into(), addr)): the sink stores the frame and
\* its destination.
TaskStartSend(t) ==
    /\ spc = "running"
    /\ TaskPc(t) = "start"
    /\ sframe' = <<[data |-> t, to |-> ReplyAddr(t)]>>
    /\ stasks' = [stasks EXCEPT ![t].pc = "flush"]
    /\ UNCHANGED <<spc, slogging, srecv, srxerrs, sguard, ssent, hdrVars, nameVars,
                   msgVars, resVars, encVars, fmtVars, bldVars>>

\* server.rs:94-103, .await of the send: the stored frame goes to the
\* socket or the io::Error is logged; the guard is dropped when the
\* statement ends.
TaskFlush(t) ==
    /\ spc = "running"
    /\ TaskPc(t) = "flush"
    /\ IF stasks[t].fate = "sendFails"
          THEN /\ stasks' = [stasks EXCEPT ![t].pc = "failed"]
               /\ UNCHANGED ssent
          ELSE /\ stasks' = [stasks EXCEPT ![t].pc = "done"]
               /\ ssent' = ssent \o [i \in 1..Len(sframe) |->
                                        [data |-> sframe[i].data, to |-> sframe[i].to, by |-> t]]
    /\ sframe' = <<>>
    /\ sguard' = 0
    /\ UNCHANGED <<spc, slogging, srecv, srxerrs, hdrVars, nameVars,
                   msgVars, resVars, encVars, fmtVars, bldVars>>

\* The steps of the task spawned for datagram t.
TaskStep(t) ==
    \/ TaskDecode(t)
    \/ TaskExchange(t)
    \/ TaskEncode(t)
    \/ TaskLock(t)
    \/ TaskStartSend(t)
    \/ TaskFlush(t)

RelayNext ==
    \/ \E addr \in Clients, fate \in Fates : Receive(addr, fate)
    \/ RecvError
    \/ \E t \in 1..Len(stasks) : TaskStep(t)

SpecRelay == RelayInit /\ [][RelayNext]_vars

\* The runtime polls every spawned task that can make progress.
FairRelay ==
    SpecRelay /\ \A t \in 1..MaxDatagrams : WF_vars(TaskStep(t))

(***************************************************************************)
(* Builder harness: builder.rs, then Message::to_bytes and from_bytes      *)
(***************************************************************************)

\* Setter calls made on a MessageBuilder after the calls it starts with.
MaxCalls == 2

\* A call on a QuestionBuilder or ResourceRecordBuilder: the method, and
\* its argument in the field of its type.
EntryCall(f, str, c, n, d) == [f |-> f, s |-> str, c |-> c, n |-> n, d |-> d]

QName_(str) == EntryCall("name", str, Named("A"), 0, <<>>)

QType_(t) == EntryCall("q_type", <<>>, t, 0, <<>>)

Class_(c) == EntryCall("class", <<>>, c, 0, <<>>)

Ttl_(n) == EntryCall("ttl", <<>>, Named("A"), n, <<>>)

New_(str, d) == EntryCall("new", str, Named("A"), 0, d)

\* builder.rs:156-196, QuestionBuilder::new() followed by the calls ec
\* from call i on.
RECURSIVE QuestionBuilderFrom(_, _, _)
QuestionBuilderFrom(qb, ec, i) ==
    IF i > Len(ec) THEN qb
    ELSE QuestionBuilderFrom(
             CASE ec[i].f = "name"   -> [qb EXCEPT !.q_name = ec[i].s]
               [] ec[i].f = "q_type" -> [qb EXCEPT !.q_type = ec[i].c]
               [] ec[i].f = "class"  -> [qb EXCEPT !.q_class = ec[i].c]
               [] OTHER -> qb,
             ec, i + 1)

\* builder.rs:165-167 with 156-162: Default::default(), and build() of
\* 170-176 after the calls ec.
QuestionBuilderBuild(ec) ==
    Bind(QuestionBuilderFrom([q_name |-> <<>>, q_type |-> Named("A"), q_class |-> Named("IN")],
                             ec, 1),
         LAMBDA qb : [q_name |-> qb.q_name, q_type |-> qb.q_type, q_class |-> qb.q_class])

\* builder.rs:207-241, the ResourceRecordBuilder after the calls ec from
\* call i on.
RECURSIVE ResourceRecordBuilderFrom(_, _, _)
ResourceRecordBuilderFrom(rb, ec, i) ==
    IF i > Len(ec) THEN rb
    ELSE ResourceRecordBuilderFrom(
             CASE ec[i].f = "class" -> [rb EXCEPT !.class = ec[i].c]
               [] ec[i].f = "ttl"   -> [rb EXCEPT !.ttl = ec[i].n]
               [] OTHER -> rb,
             ec, i + 1)

\* The data argument of new(name, data): the RData given, or the TXT of
\* the given byte repeated n times.
DataArg(c) == IF c.n = 0 THEN c.d ELSE RDataTXT(Fill(c.n, c.d[2][1]))

\* builder.rs:210-217, new(name, data) given as ec[1], and build() of
\* 220-227 after the other calls.
ResourceRecordBuilderBuild(ec) ==
    Bind(ResourceRecordBuilderFrom([name |-> ec[1].s, data |-> DataArg(ec[1]),
                                    class |-> Named("IN"), ttl |-> 0], ec, 2),
         LAMBDA rb : [name |-> rb.name, data |-> rb.data, class |-> rb.class, ttl |-> rb.ttl])

\* A call on a MessageBuilder: the setter, and its argument in the field
\* of its type; ec holds the calls that built a question or record.
Call(f, b, n, c, ec) == [f |-> f, b |-> b, n |-> n, c |-> c, ec |-> ec]

CallId(n) == Call("id", FALSE, n, OpQuery, <<>>)

CallFlag(f, b) == Call(f, b, 0, OpQuery, <<>>)

CallCode(f, c) == Call(f, FALSE, 0, c, <<>>)

CallEntry(f, ec) == Call(f, FALSE, 0, OpQuery, ec)

\* builder.rs:28-30, MessageBuilder::new(): Default::default()
MessageBuilderNew ==
    [id |-> 0, qr |-> FALSE, opcode |-> OpQuery, aa |-> FALSE, tc |-> FALSE, rd |-> FALSE,
     ra |-> FALSE, ad |-> FALSE, cd |-> FALSE, rcode |-> RcNoError, questions |-> <<>>,
     answers |-> <<>>, name_servers |-> <<>>, additional_records |-> <<>>]

\* builder.rs:57-151, the setters
Setter(b, call) ==
    CASE call.f = "id"     -> [b EXCEPT !.id = call.n]
      [] call.f = "qr"     -> [b EXCEPT !.qr = call.b]
      [] call.f = "opcode" -> [b EXCEPT !.opcode = call.c]
      [] call.f = "aa"     -> [b EXCEPT !.aa = call.b]
      [] call.f = "tc"     -> [b EXCEPT !.tc = call.b]
      [] call.f = "rd"     -> [b EXCEPT !.rd = call.b]
      [] call.f = "ra"     -> [b EXCEPT !.ra = call.b]
      [] call.f = "ad"     -> [b EXCEPT !.ad = call.b]
      [] call.f = "cd"     -> [b EXCEPT !.cd = call.b]
      [] call.f = "rcode"  -> [b EXCEPT !.rcode = call.c]
      [] call.f = "question" ->
             [b EXCEPT !.questions = Append(@, QuestionBuilderBuild(call.ec))]
      [] call.f = "answer" ->
             [b EXCEPT !.answers = Append(@, ResourceRecordBuilderBuild(call.ec))]
      [] call.f = "name_server" ->
             [b EXCEPT !.name_servers = Append(@, ResourceRecordBuilderBuild(call.ec))]
      [] call.f = "additional_record" ->
             [b EXCEPT !.additional_records = Append(@, ResourceRecordBuilderBuild(call.ec))]

\* The builder after the calls cs from call i on.
RECURSIVE SetterChain(_, _, _)
SetterChain(b, cs, i) == IF i > Len(cs) THEN b ELSE SetterChain(Setter(b, cs[i]), cs, i + 1)

\* build() putting rd and ra into each other's field.
MessageBuilderBuild_RdRaSwapped(b) ==
    MkMessage([id |-> b.id, qr |-> b.qr, opcode |-> b.opcode, aa |-> b.aa, tc |-> b.tc,
               rd |-> b.ra, ra |-> b.rd, ad |-> b.ad, cd |-> b.cd, rcode |-> b.rcode],
              b.questions, b.answers, b.name_servers, b.additional_records)

\* builder.rs:33-52, build()
MessageBuilderBuild(b) ==
    MkMessage([id |-> b.id, qr |-> b.qr, opcode |-> b.opcode, aa |-> b.aa, tc |-> b.tc,
               rd |-> b.rd, ra |-> b.ra, ad |-> b.ad, cd |-> b.cd, rcode |-> b.rcode],
              b.questions, b.answers, b.name_servers, b.additional_records)

\* "www.google.com"
WwwGoogleCom == <<119, 119, 119, 46, 103, 111, 111, 103, 108, 101, 46, 99, 111, 109>>

\* "ns1.google.com"
Ns1GoogleCom == <<110, 115, 49, 46, 103, 111, 111, 103, 108, 101, 46, 99, 111, 109>>

\* builder.rs:248-267, the calls of test_message_builder
TestMessageBuilder ==
    <<CallId(1234), CallFlag("qr", TRUE), CallCode("opcode", OpStatus),
      CallEntry("question", <<QName_(WwwGoogleCom), QType_(Named("CNAME"))>>),
      CallEntry("answer", <<New_(WwwGoogleCom, RDataCNAME(Ns1GoogleCom)), Ttl_(3600)>>)>>

\* message.rs:96-124, the calls of test_to_bytes_from_bytes
TestToBytesFromBytes ==
    <<CallId(1234), CallFlag("qr", TRUE), CallFlag("aa", TRUE), CallFlag("ad", TRUE),
      CallCode("opcode", OpStatus), CallCode("rcode", RcServerFailure),
      CallEntry("question", <<QName_(WwwGoogleCom), QType_(Named("A"))>>),
      CallEntry("answer", <<New_(WwwGoogleCom, RDataA(<<142, 250, 71, 68>>)), Ttl_(5678)>>),
      CallEntry("answer", <<New_(WwwGoogleCom, RDataA(<<216, 58, 199, 36>>)), Ttl_(5678)>>)>>

\* The calls a builder of this harness starts with.
Preludes == {<<>>, TestMessageBuilder, TestToBytesFromBytes}

\* The calls made after them.
HeaderCalls ==
    {CallId(77), CallFlag("qr", FALSE), CallCode("opcode", OpIQuery),
     CallCode("rcode", RcRefused)}
    \cup {CallFlag(f, TRUE) : f \in FlagNames}

EntryCalls ==
    {CallEntry("question", <<>>),
     CallEntry("question", <<QName_(NameABC), QType_(Named("TXT")), Class_(Named("CH"))>>),
     CallEntry("answer", <<New_(NameABC, RDataTXT(<<104, 105>>))>>),
     CallEntry("answer", <<New_(NameABC, RDataRaw(41, <<1, 2>>)), Class_(Named("CH")),
                           Ttl_(2147483647), Ttl_(86400)>>),
     CallEntry("name_server",
               <<New_(NameABC, RDataSOA(NameABC, Ns1GoogleCom, 7, 3600, 900, 604800, 60)),
                 Ttl_(60)>>),
     CallEntry("additional_record", <<New_(<<120>>, RDataAAAA(Fill(16, 1)))>>)}

\* ResourceRecordBuilder::new("a.bc", RData::TXT("a".repeat(65536))): a
\* text one byte longer than an rdlength can say.  The call is kept by its
\* repeat count.
LongText == CallEntry("answer", <<EntryCall("new", NameABC, Named("A"), U16Max + 1,
                                            RDataTXT(<<97>>))>>)

\* Whether the calls cs hold the long record; it is offered as the only
\* call of a builder.
HasLong(cs) == \E i \in 1..Len(cs) : cs[i] = LongText

\* The longest of the Preludes that cs starts with.
PreludeLen(cs) ==
    CHOOSE n \in {Len(p) : p \in {q \in Preludes : Len(q) <= Len(cs) /\ SubSeq(cs, 1, Len(q)) = q}} :
        \A p \in Preludes : (Len(p) <= Len(cs) /\ SubSeq(cs, 1, Len(p)) = p) => Len(p) <= n

\* The MessageBuilder after the calls made: every setter takes the builder
\* by value and returns it.
bld == SetterChain(MessageBuilderNew, bcalls, 1)

\* The Message build() returns for it.
bmsg == MessageBuilderBuild(bld)

\* buf after message.to_bytes(&mut buf), buf = Vec::new() before
benc == MessageToBytes(bmsg, <<>>)

BuildInit ==
    /\ HdrIdle
    /\ NameIdle
    /\ MsgIdle
    /\ ResIdle
    /\ EncIdle
    /\ FmtIdle
    /\ RelayIdle
    /\ bpc = "building"
    /\ bcalls \in Preludes
    /\ bres = NoRes
    /\ bdec = NoRes

\* builder = builder.<setter>(<argument>)
CallSetter(call) ==
    /\ bpc = "building"
    /\ ~HasLong(bcalls)
    /\ Len(bcalls) - PreludeLen(bcalls) < MaxCalls
    /\ call = LongText => bcalls = <<>>
    /\ bcalls' = Append(bcalls, call)
    /\ UNCHANGED <<bpc, bres, bdec, hdrVars, nameVars, msgVars, resVars, encVars,
                   fmtVars, relayVars>>

\* let message = builder.build()
Build ==
    /\ bpc = "building"
    /\ bpc' = "built"
    /\ UNCHANGED <<bcalls, bres, bdec, hdrVars, nameVars, msgVars, resVars, encVars,
                   fmtVars, relayVars>>

\* message.rs:125-126, let message_len = message.to_bytes(&mut buf) with
\* buf = Vec::new()
BuiltToBytes ==
    /\ bpc = "built"
    /\ bres' = (IF benc.st = "Ok" THEN ResOk(benc.n)
                ELSE IF benc.st = "Panic" THEN ResPanic ELSE ResErr(benc.err))
    /\ bpc' = "encoded"
    /\ UNCHANGED <<bcalls, bdec, hdrVars, nameVars, msgVars, resVars, encVars,
                   fmtVars, relayVars>>

\* message.rs:127, Message::from_bytes(&buf[0..message_len])
BuiltFromBytes ==
    /\ bpc = "encoded"
    /\ bres.st = "Ok"
    /\ bdec' = FromBytes(Take(benc.buf, bres.val))
    /\ bpc' = "decoded"
    /\ UNCHANGED <<bcalls, bres, hdrVars, nameVars, msgVars, resVars, encVars,
                   fmtVars, relayVars>>

BuildNext ==
    \/ \E call \in HeaderCalls \cup EntryCalls \cup {LongText} : CallSetter(call)
    \/ Build
    \/ BuiltToBytes
    \/ BuiltFromBytes

SpecBuild == BuildInit /\ [][BuildNext]_vars

(***************************************************************************)
(* Claims                                                                  *)
(***************************************************************************)

B2N(b) == IF b THEN 1 ELSE 0

HdrEncoded == hpc \in {"encoded", "redecoded"}

C7_RcodeGuard ==
    (HdrEncoded /\ hdr.rcode.k = "Unknown" /\ hdr.rcode.v > 15)
        => (henc.st = "Err" /\ Len(henc.buf) < 4)

\* C9: for every header that encodes (rcode within its 4 bits), the first
\* flag byte written is qr<<7 | opcode<<3 | aa<<2 | tc<<1 | rd and the
\* second is ra<<7 | ad<<5 | cd<<4 | rcode.
C9_FlagLayout ==
    (HdrEncoded /\ henc.st = "Ok" /\ RCodeAsU8(hdr.rcode) <= 15)
        => /\ henc.buf[3] = B2N(hdr.qr) * 128 + OpCodeAsU8(hdr.opcode).v * 8
                              + B2N(hdr.aa) * 4 + B2N(hdr.tc) * 2 + B2N(hdr.rd)
           /\ henc.buf[4] = B2N(hdr.ra) * 128 + B2N(hdr.ad) * 32 + B2N(hdr.cd) * 16
                              + RCodeAsU8(hdr.rcode)

\* C10: read_header of a 12-byte header whose reserved bit is zero succeeds
\* and reads the flag word as qr(1) opcode(4) aa tc rd ra reserved(1) ad cd
\* rcode(4); opcode values 3..15 and rcode values 6..15 become Unknown(value).
C10_HeaderDecode ==
    (hpc = "decoded" /\ (hwire[4] \div 64) % 2 = 0)
        => LET b3 == hwire[3]
               b4 == hwire[4]
               op == (b3 \div 8) % 16
               rc == b4 % 16
               h  == hdec.val.header
           IN  /\ hdec.st = "Ok"
               /\ h.id = hwire[1] * 256 + hwire[2]
               /\ h.qr = (b3 >= 128)
               /\ h.aa = ((b3 \div 4) % 2 = 1)
               /\ h.tc = ((b3 \div 2) % 2 = 1)
               /\ h.rd = (b3 % 2 = 1)
               /\ h.ra = (b4 >= 128)
               /\ h.ad = ((b4 \div 32) % 2 = 1)
               /\ h.cd = ((b4 \div 16) % 2 = 1)
               /\ (op = 0 => h.opcode = OpQuery)
               /\ (op = 1 => h.opcode = OpIQuery)
               /\ (op = 2 => h.opcode = OpStatus)
               /\ (op \in 3..15 => h.opcode = OpUnknown(op))
               /\ (rc = 0 => h.rcode = RcNoError)
               /\ (rc = 1 => h.rcode = RcFormatError)
               /\ (rc = 2 => h.rcode = RcServerFailure)
               /\ (rc = 3 => h.rcode = RcNameError)
               /\ (rc = 4 => h.rcode = RcNotImplemented)
               /\ (rc = 5 => h.rcode = RcRefused)
               /\ (rc \in 6..15 => h.rcode = RcUnknown(rc))
               /\ hdec.val.qd_count = hwire[5] * 256 + hwire[6]
               /\ hdec.val.an_count = hwire[7] * 256 + hwire[8]
               /\ hdec.val.ns_count = hwire[9] * 256 + hwire[10]
               /\ hdec.val.ar_count = hwire[11] * 256 + hwire[12]

C10_Witness ==
    /\ hpc = "decoded"
    /\ hdec.st = "Ok"
    /\ hdec.val.header.opcode = OpUnknown(15)
    /\ hdec.val.header.rcode = RcUnknown(6)
    /\ hdec.val.header.ra /\ ~hdec.val.header.rd

MsgDecoded == mpc \in {"decoded", "compared", "encoded", "redecoded"}

\* C1: for every Message that Message::from_bytes returns, to_bytes
\* succeeds, and from_bytes of the bytes it wrote returns an equal Message.
C1_RoundTrip ==
    /\ (mpc \in {"encoded", "redecoded"} => menc.st = "Ok")
    /\ (mpc = "redecoded" => mdec2 = mdec)

\* C2: when a name of the datagram points back at an offset already
\* followed for it, Message::from_bytes fails with CircularReference.
C2_CycleRejection ==
    (MsgDecoded /\ "cycle" \in mtags /\ "past" \notin mtags)
        => (mdec.st = "Err" /\ mdec.err = "CircularReference")

\* C3: Message::from_bytes returns a Message or a MessageError for every
\* datagram; it never aborts.
C3_DecodeTotal ==
    MsgDecoded => mdec.st \in {"Ok", "Err"}

\* C4: a datagram written with compression pointers and the same message
\* written with every name expanded decode to equal Messages.
C4_CompressionEquivalence ==
    (mpc = "compared" /\ "twin" \in mtags) => mdec = mxdec

RECURSIVE FullyResolved(_)
FullyResolved(names) ==
    \A i \in 1..Len(names) :
        /\ names[i][1] # "Pointer"
        /\ (names[i][1] = "ResolvedPtr" => FullyResolved(names[i][2]))

\* The stepwise run ends as the recursive operator ResolveNames says.
ResolveAgrees ==
    rpc = "done" =>
        Bind(ResolveNames(rbuf, ReadNames(rbuf).val, {}), LAMBDA r :
        /\ r.st = rout.st
        /\ r.err = rout.err
        /\ (r.st = "Ok" => r.val = rout.val))

\* Every offset is followed at most once, so the nested calls are no more
\* than the distinct offsets followed, which lie inside the buffer.
ResolveDepthBound ==
    /\ rcalls <= Cardinality(rseen)
    /\ rcalls <= Len(rbuf)
    /\ Len(rstack) <= rcalls + 1

ResolveTerminates == <>(rpc = "done")

\* C5: resolving one name makes no more nested resolve_names calls than
\* there are distinct offsets, and ends with a fully resolved name or with
\* an error.
C5_ResolveEnds ==
    /\ ResolveDepthBound
    /\ (rpc = "done" =>
           \/ rout.st = "Ok" /\ FullyResolved(rout.val[1])
           \/ rout.st = "Err")

\* The raw records of a datagram in the order they lie on the wire, read
\* in one run of an_count + ns_count + ar_count records after the questions.
WireRecords(input) ==
    Bind(ReadHeader(input), LAMBDA h : IF h.st # "Ok" THEN NomErr ELSE
    Bind(ReadQuestions(h.rest, h.val.qd_count, <<>>), LAMBDA qs :
        IF qs.st # "Ok" THEN NomErr ELSE
    ReadRecords(qs.rest, h.val.an_count + h.val.ns_count + h.val.ar_count, <<>>)))

\* The records of a Message, section after section.
AllRecords(m) == (m.answers \o m.name_servers) \o m.additional_records

C12_AaaaFromRdata ==
    (MsgDecoded /\ mdec.st = "Ok") =>
        Bind(WireRecords(mbuf), LAMBDA w :
        Bind(AllRecords(mdec.val), LAMBDA rs :
            \A i \in 1..Len(rs) :
                TypeToU16(w.val[i].rtype) = 28 => rs[i].data = RDataAAAA(w.val[i].rdata)))

\* C13: a TXT record with RDATA that is not valid UTF-8 makes
\* Message::from_bytes fail with EncodingError, and a TXT record of a
\* Message returned holds the RDATA bytes unchanged.
C13_TxtDecode ==
    /\ (MsgDecoded /\ "txtBad" \in mtags /\ "cycle" \notin mtags /\ "past" \notin mtags)
           => (mdec.st = "Err" /\ mdec.err = "EncodingError")
    /\ (MsgDecoded /\ mdec.st = "Ok") =>
           Bind(WireRecords(mbuf), LAMBDA w :
           Bind(AllRecords(mdec.val), LAMBDA rs :
               \A i \in 1..Len(rs) :
                   TypeToU16(w.val[i].rtype) = 16 =>
                       /\ rs[i].data = RDataTXT(w.val[i].rdata)
                       /\ Utf8Valid(w.val[i].rdata)))

\* The names of a Message: of its questions and of its records.
MessageNames(m) ==
    {m.questions[i].q_name : i \in 1..Len(m.questions)}
    \cup {AllRecords(m)[i].name : i \in 1..Len(AllRecords(m))}

\* C14: no name read from a datagram holds a label longer than 63 bytes.
C14_LabelsAtMost63 ==
    (MsgDecoded /\ mdec.st = "Ok") =>
        \A name \in MessageNames(mdec.val) :
            \A i \in 1..Len(Split(name)) : Len(Split(name)[i]) <= MaxLabel

\* The 16-bit type code ResourceRecord::to_bytes writes behind the name of rr.
WrittenType(rr) ==
    Bind(EncodeStr(rr.name, <<>>), LAMBDA n :
    Bind(ResourceRecordToBytes(rr, <<>>), LAMBDA e :
    U16FromBe(SubSeq(e.buf, n.n + 1, n.n + 2))))

\* C15: for every record of a decoded Message that to_bytes has encoded,
\* the type code written is the code of its RData variant and the type
\* code the record had in the datagram.
C15_TypeFromVariant ==
    (mpc \in {"encoded", "redecoded"} /\ menc.st = "Ok") =>
        Bind(WireRecords(mbuf), LAMBDA w :
        Bind(AllRecords(mdec.val), LAMBDA rs :
            \A i \in 1..Len(rs) :
                /\ WrittenType(rs[i]) = RDataAsU16(rs[i].data)
                /\ WrittenType(rs[i]) = TypeToU16(w.val[i].rtype)))

C15_Witness ==
    /\ mpc \in {"encoded", "redecoded"}
    /\ menc.st = "Ok"
    /\ \E i, j \in 1..Len(AllRecords(mdec.val)) :
           /\ AllRecords(mdec.val)[i].data[1] = "Raw"
           /\ AllRecords(mdec.val)[j].data[1] = "SOA"

\* C16: the four counts Header::to_bytes writes are the lengths of the
\* four sections of the message.
C16_CountsAreLengths ==
    (HdrEncoded /\ henc.st = "Ok") =>
        \A k \in 1..4 : U16FromBe(SubSeq(henc.buf, 3 + 2 * k, 4 + 2 * k)) = hcounts[k]

\* The position behind the name with segments parts written in full at
\* position pos of buf (each segment from i on as a length byte of at most
\* 63 and its bytes, then a zero byte), 0 when buf holds something else.
RECURSIVE LabelsAt(_, _, _, _)
LabelsAt(buf, pos, parts, i) ==
    IF pos = 0 \/ pos > Len(buf) THEN 0
    ELSE IF i > Len(parts) THEN (IF buf[pos] = 0 THEN pos + 1 ELSE 0)
    ELSE IF /\ Len(parts[i]) <= 63
            /\ buf[pos] = Len(parts[i])
            /\ pos + Len(parts[i]) <= Len(buf)
            /\ SubSeq(buf, pos + 1, pos + Len(parts[i])) = parts[i]
         THEN LabelsAt(buf, pos + 1 + Len(parts[i]), parts, i + 1)
         ELSE 0

\* The position behind the questions qs[i..] lying at pos, each under its
\* name in full, 0 when they do not.
RECURSIVE QuestionsAt(_, _, _, _)
QuestionsAt(buf, pos, qs, i) ==
    IF i > Len(qs) THEN pos
    ELSE Bind(LabelsAt(buf, pos, Split(qs[i].q_name), 1), LAMBDA p :
         IF p = 0 THEN 0 ELSE QuestionsAt(buf, p + 4, qs, i + 1))

\* The position behind the records rs[i..] lying at pos, each under its
\* name in full and a CNAME with its target in full, 0 when they do not.
RECURSIVE RecordsAt(_, _, _, _)
RecordsAt(buf, pos, rs, i) ==
    IF i > Len(rs) THEN pos
    ELSE Bind(LabelsAt(buf, pos, Split(rs[i].name), 1), LAMBDA p :
         IF p = 0 \/ p + 9 > Len(buf) THEN 0
         ELSE Bind(p + 10 + U16FromBe(SubSeq(buf, p + 8, p + 9)), LAMBDA next :
              IF rs[i].data[1] = "CNAME"
                  /\ LabelsAt(buf, p + 10, Split(rs[i].data[2]), 1) # next
              THEN 0
              ELSE RecordsAt(buf, next, rs, i + 1)))

\* C17: in the bytes Message::to_bytes wrote, every question and record
\* lies under its name written in full, segment after segment, with no
\* length byte above 63, also when the name was written before.
C17_NamesInFull ==
    (epc = "done" /\ eres.st = "Ok") =>
        RecordsAt(eres.buf,
                  QuestionsAt(eres.buf, Len(eout) + 13, emsg.questions, 1),
                  AllRecords(emsg), 1) = Len(eres.buf) + 1

C17_Witness ==
    /\ epc = "done"
    /\ eres.st = "Ok"
    /\ Len(emsg.questions) = 1
    /\ Len(emsg.answers) = 2
    /\ emsg.answers[1].name = emsg.questions[1].q_name
    /\ emsg.answers[2] = MkRecord(emsg.questions[1].q_name, RDataCNAME(emsg.questions[1].q_name))

\* C18: to_bytes on a Message with a record whose RData variant has no
\* encode case returns a byte count or a MessageError.
C18_FallbackCompletes ==
    (epc = "done" /\ \E i \in 1..Len(AllRecords(emsg)) :
                         AllRecords(emsg)[i].data[1] \in NoEncodeCase)
        => eres.st \in {"Ok", "Err"}

\* C19: when to_bytes returns an error, the caller's buffer holds the
\* bytes it held before the call.
C19_NoPartialResult ==
    (epc = "done" /\ eres.st = "Err") => eres.buf = eout

RECURSIVE SumFrom(_, _)
SumFrom(sizes, i) == IF i > Len(sizes) THEN 0 ELSE sizes[i] + SumFrom(sizes, i + 1)

\* 12 bytes of header, each question's name, type and class, each record's
\* name, type, class, ttl, rdlength and RDATA.
WireSize(m) ==
    12 + SumFrom([i \in 1..Len(m.questions) |->
                      Len(EncodeStr(m.questions[i].q_name, <<>>).buf) + 4], 1)
       + SumFrom([i \in 1..Len(AllRecords(m)) |->
                      Len(EncodeStr(AllRecords(m)[i].name, <<>>).buf) + 10
                          + Len(RDataToBytes(AllRecords(m)[i].data, <<>>).buf)], 1)

\* C20: when to_bytes succeeds, the number it returns is the number of
\* bytes it appended (the header, the questions and the records), and the
\* bytes the buffer held before the call stand unchanged in front of them.
C20_ReturnedCount ==
    (epc = "done" /\ eres.st = "Ok") =>
        /\ eres.n = Len(eres.buf) - Len(eout)
        /\ eres.n = WireSize(emsg)
        /\ SubSeq(eres.buf, 1, Len(eout)) = eout

C20_Witness ==
    /\ epc = "done"
    /\ eres.st = "Ok"
    /\ eout # <<>>
    /\ Len(emsg.questions) = 1
    /\ Len(emsg.answers) = 2
    /\ emsg.answers[1].data[1] = "SOA"

\* The strings the decoder returns for names with labels of 1..63 bytes:
\* the empty string of the root name, and segments of 1..63 bytes.
DecoderName(str) ==
    \/ str = <<>>
    \/ \A i \in 1..Len(Split(str)) : Len(Split(str)[i]) \in 1..MaxLabel

\* C28: for every name string the decoder returns, encode_str writes
\* bytes that read_names consumes completely and that flatten back to the
\* same string; the root name is written as a single zero byte.
C28_NameRoundTrip ==
    /\ (NameEncoded /\ DecoderName(nstr)) => nenc.st = "Ok"
    /\ (npc = "readback" /\ DecoderName(nstr))
           => (nback.st = "Ok" /\ nback.rest = <<>> /\ nback.val = nstr)
    /\ (NameEncoded /\ nstr = <<>>) => nenc.buf = <<0>>

\* C24: the set of visited offsets belongs to one name.  A datagram whose
\* header is accepted and whose names are all well formed decodes although
\* several of its names point at the same offset, and as_message reports CircularReference only for a
\* datagram that holds a name whose own chain comes back to an offset.
C24_VisitedSetPerName ==
    MsgDecoded =>
        /\ ("twin" \in mtags /\ ReadHeader(mbuf).st = "Ok") => masm.st = "Ok"
        /\ (masm.st = "Err" /\ masm.err = "CircularReference") => "cycle" \in mtags

\* decoded: an SOA whose mname and rname are the same pointer, under a
\* record name that points at that offset too
C24_Witness ==
    /\ MsgDecoded /\ masm.st = "Ok"
    /\ {"ptrQ", "soaSame"} \subseteq mtags
    /\ Len(AllRecords(masm.val)) = 1
    /\ AllRecords(masm.val)[1].data[2] = AllRecords(masm.val)[1].data[3]
    /\ AllRecords(masm.val)[1].data[2] = AllRecords(masm.val)[1].name

\* C25: as_message reads every section before it resolves any name, and
\* resolves every top-level name before it converts any RDATA.  A datagram
\* cut short in a later section ends in the structural parse error although
\* an earlier name is circular or points past the end, and a top-level name
\* that points at itself is reported before the RDATA error of a record
\* that stands before it.
C25_TwoPassOrdering ==
    MsgDecoded =>
        /\ ("trunc" \in mtags) => (masm.st = "Err" /\ masm.err = "ParsingError")
        /\ (mtags \cap {"self", "labSelf"} # {} /\ mtags \cap {"trunc", "oob"} = {})
               => (masm.st = "Err" /\ masm.err = "CircularReference")

\* decoded: an answer whose TXT is not UTF-8 before an additional record
\* under a self-pointing name
C25_Witness ==
    /\ MsgDecoded
    /\ {"txtBad", "self"} \subseteq mtags
    /\ masm.err = "CircularReference"

\* decoded: a datagram cut inside its answer, after a question whose name
\* points past the end
C25_WitnessCut ==
    /\ MsgDecoded
    /\ {"trunc", "oob"} \subseteq mtags
    /\ masm.err = "ParsingError"

\* Where the name that starts at pos ends, by the wire format alone.
RECURSIVE NameEnd(_, _)
NameEnd(buf, pos) ==
    IF buf[pos] >= 192 THEN pos + 2
    ELSE IF buf[pos] = 0 THEN pos + 1
    ELSE NameEnd(buf, pos + 1 + buf[pos])

\* Where the n questions that start at pos end.
RECURSIVE QuestionsEnd(_, _, _)
QuestionsEnd(buf, pos, n) ==
    IF n = 0 THEN pos ELSE QuestionsEnd(buf, NameEnd(buf, pos) + 4, n - 1)

\* The positions of the type fields of the n records that start at pos,
\* followed by the position after the last record: each record ends
\* rdlength bytes after its rdlength field.
RECURSIVE FramesFrom(_, _, _, _)
FramesFrom(buf, pos, n, acc) ==
    IF n = 0 THEN Append(acc, pos)
    ELSE Bind(NameEnd(buf, pos), LAMBDA t :
         FramesFrom(buf, t + 10 + U16FromBe(<<buf[t + 8], buf[t + 9]>>), n - 1,
                    Append(acc, t)))

Frames(buf, m) ==
    FramesFrom(buf, QuestionsEnd(buf, 13, Len(m.questions)), Len(AllRecords(m)), <<>>)

\* C26: every record is read where the record before it ends, rdlength
\* bytes after that record's rdlength field, whatever its payload used of
\* those bytes; the last record ends where the datagram ends.  A well-formed
\* datagram with an accepted header decodes, whatever its records leave
\* unused of their RDATA.
C26_RecordFraming ==
    MsgDecoded =>
        /\ ("twin" \in mtags /\ ReadHeader(mbuf).st = "Ok") => mdec.st = "Ok"
        /\ mdec.st = "Ok" =>
               /\ \A i \in 1..Len(AllRecords(mdec.val)) :
                      /\ RDataAsU16(AllRecords(mdec.val)[i].data)
                             = U16FromBe(SubSeq(mbuf, Frames(mbuf, mdec.val)[i],
                                                Frames(mbuf, mdec.val)[i] + 1))
                      /\ AllRecords(mdec.val)[i].ttl
                             = U32FromBe(SubSeq(mbuf, Frames(mbuf, mdec.val)[i] + 4,
                                                Frames(mbuf, mdec.val)[i] + 7))
               /\ Frames(mbuf, mdec.val)[Len(AllRecords(mdec.val)) + 1] = Len(mbuf) + 1

\* decoded: a CNAME whose RDATA is a two-byte pointer and two more bytes,
\* before a record of another type
C26_Witness ==
    /\ MsgDecoded /\ mdec.st = "Ok"
    /\ "cnamePad" \in mtags
    /\ Len(AllRecords(mdec.val)) = 2
    /\ AllRecords(mdec.val)[1].data[1] = "CNAME"
    /\ AllRecords(mdec.val)[2].data[1] = "SOA"

\* The outcome of resolve_names on what read_names reads at the start of
\* slice.
ResolvedAt(input, slice) ==
    Bind(ReadNames(slice), LAMBDA n :
    IF n.st # "Ok" THEN ResErr("ParsingError")
    ELSE Bind(ResolveNames(input, n.val, {}), LAMBDA r :
         IF r.st # "Ok" THEN r ELSE ResOk(<<r.val[1], n.rest>>)))

\* The names from_irr hands to flatten_to_string for the RDATA of one
\* record: the CNAME, or the mname and rname of an SOA.
RdataNames(input, irr) ==
    IF irr.rtype.k \notin {"CNAME", "SOA"} THEN {}
    ELSE Bind(ResolvedAt(input, irr.rdata), LAMBDA m :
         IF m.st # "Ok" THEN {}
         ELSE IF irr.rtype.k = "CNAME" THEN {m.val[1]}
         ELSE Bind(ResolvedAt(input, m.val[2]), LAMBDA r :
              IF r.st # "Ok" THEN {m.val[1]} ELSE {m.val[1], r.val[1]}))

\* Every name structure as_message hands to flatten_to_string: the names
\* of the questions and records after parser.rs:353-364, and the RDATA
\* names of parser.rs:71-84.  Nothing is flattened unless all top-level
\* names were resolved.
FlattenArgs(input) ==
    Bind(ReadHeader(input), LAMBDA h : IF h.st # "Ok" THEN {} ELSE
    Bind(ReadQuestions(h.rest, h.val.qd_count, <<>>), LAMBDA qs : IF qs.st # "Ok" THEN {} ELSE
    Bind(ReadRecords(qs.rest, h.val.an_count + h.val.ns_count + h.val.ar_count, <<>>),
         LAMBDA rs : IF rs.st # "Ok" THEN {} ELSE
    Bind(ResolveQuestions(input, qs.val, 1), LAMBDA rqs : IF rqs.st # "Ok" THEN {} ELSE
    Bind(ResolveRecords(input, rs.val, 1), LAMBDA rrs : IF rrs.st # "Ok" THEN {} ELSE
        { rqs.val[i].qname : i \in 1..Len(rqs.val) }
            \cup { rrs.val[i].name : i \in 1..Len(rrs.val) }
            \cup UNION { RdataNames(input, rrs.val[i]) : i \in 1..Len(rrs.val) })))))

\* C27: no name handed to flatten_to_string holds a pointer, at any depth.
C27_NoPointerReachesFlatten ==
    MsgDecoded => \A names \in FlattenArgs(mbuf) : FullyResolved(names)

\* decoded: a name whose pointer leads to labels that end in another
\* pointer
C27_Witness ==
    /\ MsgDecoded /\ mdec.st = "Ok"
    /\ \E names \in FlattenArgs(mbuf) : \E i \in 1..Len(names) :
           /\ names[i][1] = "ResolvedPtr"
           /\ \E j \in 1..Len(names[i][2]) : names[i][2][j][1] = "ResolvedPtr"

\* C29: formatting a MessageError with Display terminates: every call of
\* fmt made by a caller returns.
C29_FormattingTerminates == (fpc = "fmt") ~> (fpc = "done")

\* The tasks that hold a frame between start_send and the end of the send.
Sending == { t \in 1..Len(stasks) : TaskPc(t) \in {"start", "flush"} }

\* C22: every reply the sink writes goes to the address its datagram came
\* from, and is written by the task of that datagram; no two tasks are
\* inside a send at the same time.
C22_ReplyAddressing ==
    /\ \A i \in 1..Len(ssent) :
           /\ ssent[i].by = ssent[i].data
           /\ ssent[i].to = srecv[ssent[i].data].addr
    /\ Cardinality(Sending) <= 1
    /\ Sending \subseteq {sguard}

\* two clients answered, the second datagram first
C22_Witness ==
    /\ Len(ssent) = 2
    /\ ssent[1].data = 2 /\ ssent[2].data = 1
    /\ ssent[1].to # ssent[2].to

\* C30: a failure ends only the task of its datagram.  The process is never
\* aborted, and every datagram that is well formed and whose upstream
\* exchange, encoding and send succeed is answered.
C30_FailureIsolation ==
    /\ [](spc # "aborted")
    /\ \A t \in 1..MaxDatagrams :
           (TaskFate(t) = "answered")
               ~> (TaskPc(t) = "done" /\ \E i \in 1..Len(ssent) : ssent[i].data = t)

\* The positions in the calls cs of the calls of method f.
CallsOf(cs, f) == { i \in 1..Len(cs) : cs[i].f = f }

\* The last call of method f among cs.
LastCall(cs, f) == cs[CHOOSE i \in CallsOf(cs, f) : \A j \in CallsOf(cs, f) : j <= i]

\* What the documentation of the builders promises for the calls made: the
\* argument of the last call of a setter, or the default.
ExpectedFlag(f) == IF CallsOf(bcalls, f) = {} THEN FALSE ELSE LastCall(bcalls, f).b

ExpectedQuestion(ec) ==
    [q_name  |-> IF CallsOf(ec, "name") = {} THEN <<>> ELSE LastCall(ec, "name").s,
     q_type  |-> IF CallsOf(ec, "q_type") = {} THEN Named("A") ELSE LastCall(ec, "q_type").c,
     q_class |-> IF CallsOf(ec, "class") = {} THEN Named("IN") ELSE LastCall(ec, "class").c]

ExpectedRecord(ec) ==
    [name  |-> ec[1].s,
     data  |-> IF ec[1].n = 0 THEN ec[1].d ELSE RDataTXT([i \in 1..ec[1].n |-> ec[1].d[2][1]]),
     class |-> IF CallsOf(ec, "class") = {} THEN Named("IN") ELSE LastCall(ec, "class").c,
     ttl   |-> IF CallsOf(ec, "ttl") = {} THEN 0 ELSE LastCall(ec, "ttl").n]

\* The entries added to section f, in the order of the calls.
ExpectedQuestions ==
    Bind(SelectSeq(bcalls, LAMBDA c : c.f = "question"),
         LAMBDA cs : [i \in 1..Len(cs) |-> ExpectedQuestion(cs[i].ec)])

ExpectedRecords(f) ==
    Bind(SelectSeq(bcalls, LAMBDA c : c.f = f),
         LAMBDA cs : [i \in 1..Len(cs) |-> ExpectedRecord(cs[i].ec)])

MsgBuilt == bpc \in {"built", "encoded", "decoded"}

\* C23: the Message build() returns holds the values passed to the
\* setters, the default where a setter was not called (id 0, flags false,
\* Query, NoError; type A, class IN, ttl 0 for the entries), and in each
\* section the entries in the order they were added.
C23_BuilderResult ==
    MsgBuilt =>
        /\ bmsg.header.id = (IF CallsOf(bcalls, "id") = {} THEN 0 ELSE LastCall(bcalls, "id").n)
        /\ bmsg.header.opcode
               = (IF CallsOf(bcalls, "opcode") = {} THEN OpQuery ELSE LastCall(bcalls, "opcode").c)
        /\ bmsg.header.rcode
               = (IF CallsOf(bcalls, "rcode") = {} THEN RcNoError ELSE LastCall(bcalls, "rcode").c)
        /\ bmsg.header.qr = ExpectedFlag("qr")
        /\ bmsg.header.aa = ExpectedFlag("aa")
        /\ bmsg.header.tc = ExpectedFlag("tc")
        /\ bmsg.header.rd = ExpectedFlag("rd")
        /\ bmsg.header.ra = ExpectedFlag("ra")
        /\ bmsg.header.ad = ExpectedFlag("ad")
        /\ bmsg.header.cd = ExpectedFlag("cd")
        /\ bmsg.questions = ExpectedQuestions
        /\ bmsg.answers = ExpectedRecords("answer")
        /\ bmsg.name_servers = ExpectedRecords("name_server")
        /\ bmsg.additional_records = ExpectedRecords("additional_record")

\* built: the two answers of test_to_bytes_from_bytes, a third answer
\* whose ttl was set twice, rd set, everything else as the test left it
C23_Witness ==
    /\ bpc = "built"
    /\ Len(bmsg.answers) = 3
    /\ bmsg.answers[3].ttl = 86400 /\ bmsg.answers[3].class = Named("CH")
    /\ bmsg.header.rd /\ ~bmsg.header.ra
    /\ bmsg.header.id = 1234
    /\ bmsg.name_servers = <<>>

\* The names C21 speaks of.
SegmentedName(str) ==
    /\ str # <<>>
    /\ \A i \in 1..Len(Split(str)) : Len(Split(str)[i]) \in 1..MaxLabel

\* The record data C21 speaks of.
PlainData(d) ==
    CASE d[1] = "A" -> TRUE
      [] d[1] = "CNAME" -> SegmentedName(d[2])
      [] d[1] = "SOA" -> SegmentedName(d[2]) /\ SegmentedName(d[3])
      [] d[1] = "TXT" -> TRUE
      [] d[1] = "Raw" -> d[2] \notin {1, 5, 6, 16, 28}
      [] OTHER -> FALSE

\* The messages C21 speaks of.
Constructed(m) ==
    /\ m.header.rd = m.header.ra
    /\ m.header.opcode.k = "Unknown" => m.header.opcode.v \in 3..15
    /\ m.header.rcode.k = "Unknown" => m.header.rcode.v \in 6..15
    /\ \A i \in 1..Len(m.questions) :
           /\ SegmentedName(m.questions[i].q_name)
           /\ TypeFromU16(TypeToU16(m.questions[i].q_type)) = m.questions[i].q_type
           /\ ClassFromU16(ClassToU16(m.questions[i].q_class)) = m.questions[i].q_class
    /\ \A i \in 1..Len(AllRecords(m)) :
           /\ SegmentedName(AllRecords(m)[i].name)
           /\ ClassFromU16(ClassToU16(AllRecords(m)[i].class)) = AllRecords(m)[i].class
           /\ PlainData(AllRecords(m)[i].data)

\* C21: to_bytes succeeds on every such Message built with the builders,
\* and from_bytes of the bytes it wrote returns an equal Message.
C21_ConstructedRoundTrip ==
    (bpc \in {"encoded", "decoded"} /\ Constructed(bmsg)) =>
        /\ bres.st = "Ok"
        /\ bpc = "decoded" => bdec = ResOk(bmsg)

====
